---- MODULE Spec2Model ----
(***************************************************************************)
(* Model of the USACE hydropower scraper (src/unnamed/part_000), of the     *)
(* parser copy in src/scripts/test-scraper.js and of the scrapeDateData     *)
(* that probes for the submit button (src/DEBUGGING.md).                    *)
(*                                                                         *)
(* An HTML page is a sequence of tokens: tags and text runs.  The regular  *)
(* expressions of parseGenerationTable act on that sequence exactly as     *)
(* they act on the characters of the page: leftmost match, greedy or lazy  *)
(* as written, non-overlapping for the global ones.  Cell texts are        *)
(* sequences of one-character strings, so that trim, the numeric pattern   *)
(* and parseFloat are computed character by character.                     *)
(***************************************************************************)
EXTENDS Integers, Sequences, FiniteSets, TLC

\* Bounds of the model.
MaxRows == 3
FracDigits == 1
MaxDates == 2
MaxOptions == 2
MaxHops == 1
MaxInputs == 2
MaxUrl == 9

VARIABLES
    html,       \* parser harness: the page handed to parseGenerationTable
    periods,    \* parser harness: the returned periods
    parsed,     \* parser harness: whether the function under test has returned
    options,    \* select harness: the options extractSelectOptions returned
    extracted,  \* hidden-field harness: the mapping extractFormFields returned
    copyPeriods,\* parser harness: the periods the copy in the parser test returned
    probe,      \* probing harness: one call of the probing scrapeDateData
    fetch,      \* fetchPage harness: the call, its current request and its end
    wire,       \* fetchPage harness: the requests sent to servers, in order
    pc,         \* run: the await the scraper is at
    phase,      \* run: "primary" inside the try block, "fallback" inside the catch
    dates,      \* scrapeData: the options of Date_Selector
    idx,        \* scrapeData: the position of the date loop
    results,    \* scrapeData: the document being assembled
    attempts,   \* history: the dates the loop has tried, each with its outcome
    data,       \* run: the document to save and return, <<>> while null
    files,      \* the output directory: usace-latest, the dated backup, summary
    returned,   \* what run returned, <<>> while it has not
    exitCode,   \* the code of process.exit, -1 while the process runs
    formFields, \* scrapeData: the hidden fields to send with the next POST
    requests,   \* history: the fetchPage calls of scrapeData, in order
    responses,  \* history: how each of those calls ended
    inflight,   \* the number of fetchPage calls that have not ended
    errors,     \* the console.error lines of run, each with the await that threw
    cookie,     \* this.cookie: the name=value pairs sent with each POST
    server      \* the site: whether it sets cookies, the lists and pages it serves

pvars == <<html, periods, parsed, options, extracted, copyPeriods, probe, fetch, wire>>

rvars == <<pc, phase, dates, idx, results, attempts, data, files, returned, exitCode,
           formFields, requests, responses, inflight, errors, cookie, server>>

vars == <<html, periods, parsed, options, extracted, copyPeriods, probe, fetch, wire,
          pc, phase, dates, idx, results, attempts, data,
          files, returned, exitCode, formFields, requests, responses, inflight,
          errors, cookie, server>>

----------------------------------------------------------------------------
\* Characters and numbers

DigitChars == <<"0", "1", "2", "3", "4", "5", "6", "7", "8", "9">>

IsDigit(c) == \E i \in 1..10 : DigitChars[i] = c

DigitVal(c) == (CHOOSE i \in 1..10 : DigitChars[i] = c) - 1

RECURSIVE Pow10(_)
Pow10(n) == IF n = 0 THEN 1 ELSE 10 * Pow10(n - 1)

\* A generation value is a JavaScript number: NaN, or a decimal kept in units
\* of 1/Scale (every cell text of the model has at most FracDigits decimals).
Scale == Pow10(FracDigits)

NaN == [nan |-> TRUE, v |-> 0]

Num(n) == [nan |-> FALSE, v |-> n]

\* JavaScript's g > k for a number g and an integer literal k: false for NaN.
Greater(g, k) == ~g.nan /\ g.v > k * Scale

\* String.prototype.trim on a sequence of characters.
RECURSIVE TrimLeft(_)
TrimLeft(s) == IF s # <<>> /\ Head(s) = " " THEN TrimLeft(Tail(s)) ELSE s

RECURSIVE TrimRight(_)
TrimRight(s) ==
    IF s # <<>> /\ s[Len(s)] = " " THEN TrimRight(SubSeq(s, 1, Len(s) - 1)) ELSE s

Trim(s) == TrimRight(TrimLeft(s))

\* cells[1].match(/^[\d.]+$/): one or more characters, each a digit or a dot.
GenMatch(s) == Len(s) >= 1 /\ \A i \in 1..Len(s) : IsDigit(s[i]) \/ s[i] = "."

\* The length of the longest prefix of s made of digits.
RECURSIVE DigitRun(_)
DigitRun(s) == IF s # <<>> /\ IsDigit(Head(s)) THEN 1 + DigitRun(Tail(s)) ELSE 0

RECURSIVE DigitsValue(_)
DigitsValue(s) ==
    IF s = <<>> THEN 0 ELSE 10 * DigitsValue(SubSeq(s, 1, Len(s) - 1)) + DigitVal(s[Len(s)])

\* parseFloat: the longest prefix that is a decimal literal (digits, then
\* optionally a dot and digits); NaN when that prefix has no digit at all.
ParseFloat(s) ==
    LET n    == DigitRun(s)
        rest == SubSeq(s, n + 1, Len(s))
        m    == IF rest # <<>> /\ Head(rest) = "." THEN DigitRun(Tail(rest)) ELSE 0
        frac == SubSeq(rest, 2, m + 1)
    IN  IF n = 0 /\ m = 0 THEN NaN
        ELSE Num(DigitsValue(SubSeq(s, 1, n)) * Scale
                 + (DigitsValue(frac) * Scale) \div Pow10(m))

----------------------------------------------------------------------------
\* JavaScript numbers in arithmetic: IEEE 754 binary64, round to nearest, ties
\* to even.  A natural number is a sequence of bits, least significant
\* first; a non-negative double is m * 2^e with m odd and at most 53 bits
\* long (zero is the empty m with e = 0).  The recursions take eight bits a
\* step.

MantissaBits == 53

\* Precision of an intermediate quotient before it is rounded to a double:
\* enough for a quotient of more than MantissaBits + 1 bits.
QuotientShift == MantissaBits + 11

RECURSIVE NatBits(_)
NatBits(n) == IF n = 0 THEN <<>> ELSE <<n % 2>> \o NatBits(n \div 2)

RECURSIVE BitsNat(_)
BitsNat(b) == IF b = <<>> THEN 0 ELSE Head(b) + 2 * BitsNat(Tail(b))

Pow2 == <<1, 2, 4, 8, 16, 32, 64, 128>>

Bit(b, i) == IF i <= Len(b) THEN b[i] ELSE 0

\* The value of the eight lowest bits of b, and the eight bits of x < 256.
Byte(b) ==
    Bit(b, 1) + 2 * Bit(b, 2) + 4 * Bit(b, 3) + 8 * Bit(b, 4)
    + 16 * Bit(b, 5) + 32 * Bit(b, 6) + 64 * Bit(b, 7) + 128 * Bit(b, 8)

ByteBits(x) == [i \in 1..8 |-> (x \div Pow2[i]) % 2]

Drop8(b) == SubSeq(b, 9, Len(b))

\* The number of zero bits at the high end of the byte x, and at its low
\* end (x > 0).
HighZerosOfByte(x) == 8 - Cardinality({i \in 1..8 : x >= Pow2[i]})

LowZerosOfByte(x) == Cardinality({i \in 2..8 : x % Pow2[i] = 0})

\* b without its leading (most significant) zeros.
RECURSIVE StripHigh(_)
StripHigh(b) ==
    IF b = <<>> THEN b
    ELSE LET n   == Len(b)
             top == IF n >= 8 THEN Byte(SubSeq(b, n - 7, n)) ELSE Byte(b)
         IN  IF top = 0
             THEN (IF n >= 8 THEN StripHigh(SubSeq(b, 1, n - 8)) ELSE <<>>)
             ELSE SubSeq(b, 1, (IF n >= 8 THEN n ELSE 8) - HighZerosOfByte(top))

\* The number of zero bits at the low end of b (b not zero).
RECURSIVE LowZeros(_)
LowZeros(b) == IF Byte(b) = 0 THEN 8 + LowZeros(Drop8(b)) ELSE LowZerosOfByte(Byte(b))

Zeros(n) == [i \in 1..n |-> 0]

ShiftLeft(b, n) == IF b = <<>> THEN <<>> ELSE Zeros(n) \o b

\* a + b + carry (the result may have leading zeros).
RECURSIVE AddBits(_, _, _)
AddBits(a, b, carry) ==
    IF a = <<>> /\ b = <<>> THEN ByteBits(carry)
    ELSE LET t == Byte(a) + Byte(b) + carry
         IN  ByteBits(t % 256) \o AddBits(Drop8(a), Drop8(b), t \div 256)

\* Long division of the bits b by the small natural n, from the most
\* significant end: the quotient (with leading zeros) and the remainder.
RECURSIVE DivBits(_, _)
DivBits(b, n) ==
    IF b = <<>> THEN [q |-> <<>>, r |-> 0]
    ELSE LET hi == DivBits(Drop8(b), n)
             t  == 256 * hi.r + Byte(b)
         IN  [q |-> ByteBits(t \div n) \o hi.q, r |-> t % n]

Normal(mant, ex) ==
    LET nb == StripHigh(mant)
        z  == LowZeros(nb)
    IN  IF nb = <<>> THEN [m |-> <<>>, e |-> 0]
        ELSE [m |-> SubSeq(nb, z + 1, Len(nb)), e |-> ex + z]

\* The double nearest to (bits + a fraction) * 2^ex, where sticky tells
\* whether the fraction is non-zero: ties go to the even mantissa.
RoundToDouble(bits, ex, sticky) ==
    LET sb == StripHigh(bits)
        d  == Len(sb) - MantissaBits
    IN  IF d <= 0 THEN Normal(sb, ex)
        ELSE LET kept  == SubSeq(sb, d + 1, Len(sb))
                 guard == sb[d]
                 low   == sticky \/ \E i \in 1..(d - 1) : sb[i] = 1
                 up    == guard = 1 /\ (low \/ kept[1] = 1)
             IN  Normal(IF up THEN AddBits(kept, <<1>>, 0) ELSE kept, ex + d)

\* The double nearest to the decimal v / scale: what parseFloat returns.
ToDouble(v, scale) ==
    LET dv == DivBits(ShiftLeft(NatBits(v), QuotientShift), scale)
    IN  RoundToDouble(dv.q, 0 - QuotientShift, dv.r # 0)

\* x + y on doubles (the operands are evaluated first).
AddDouble(x, y) ==
    LET Sum(a, b) ==
            LET lo == IF a.e < b.e THEN a.e ELSE b.e
            IN  RoundToDouble(
                    AddBits(ShiftLeft(a.m, a.e - lo), ShiftLeft(b.m, b.e - lo), 0),
                    lo, FALSE)
    IN  CHOOSE r \in {Sum(a, b) : a \in {x}, b \in {y}} : TRUE

\* x / n on doubles, n a positive integer.
DivDouble(x, n) ==
    LET Quot(a) ==
            LET dx == DivBits(ShiftLeft(a.m, QuotientShift), n)
            IN  RoundToDouble(dx.q, a.e - QuotientShift, dx.r # 0)
    IN  CHOOSE r \in {Quot(a) : a \in {x}} : TRUE

\* Math.round on a non-negative double: the nearest integer, ties upwards.
MathRound(x) ==
    LET Round(a) ==
            IF a.e >= 0 THEN BitsNat(ShiftLeft(a.m, a.e))
            ELSE LET k == 0 - a.e
                 IN  IF k > Len(a.m) THEN 0
                     ELSE BitsNat(SubSeq(a.m, k + 1, Len(a.m))) + a.m[k]
    IN  CHOOSE r \in {Round(a) : a \in {x}} : TRUE

----------------------------------------------------------------------------
\* fetchPage

\* A URL and a Location header are sequences of pieces: a protocol, slashes,
\* host labels, a port, path segments.
Protocols == {"https:", "http:"}

PortPieces == {":8080"}

\* The index of the first piece after the host name, scanning from i.
RECURSIVE HostEnd(_, _)
HostEnd(str, i) ==
    IF i > Len(str) \/ str[i] = "/" \/ str[i] \in PortPieces THEN i
    ELSE HostEnd(str, i + 1)

\* new URL(url): protocol, hostname, port ('' if none) and pathname.
ParseUrl(str) ==
    LET e == HostEnd(str, 4)
        hasPort == e <= Len(str) /\ str[e] \in PortPieces
        p == IF hasPort THEN e + 1 ELSE e
    IN  [protocol |-> str[1],
         hostname |-> SubSeq(str, 4, e - 1),
         port |-> IF hasPort THEN str[e] ELSE "",
         pathname |-> IF p > Len(str) THEN <<"/">> ELSE SubSeq(str, p, Len(str))]

\* reqOptions and the body written: where the request goes and what it is.
RequestOf(url, opts) ==
    LET parsedUrl == ParseUrl(url)
    IN  [protocol |-> parsedUrl.protocol,
         hostname |-> parsedUrl.hostname,
         port |-> IF parsedUrl.port # "" THEN parsedUrl.port
                  ELSE IF parsedUrl.protocol = "https:" THEN ":443" ELSE ":80",
         path |-> parsedUrl.pathname,
         method |-> IF opts.method # "" THEN opts.method ELSE "GET",
         contentType |-> opts.body # <<>>,
         body |-> opts.body,
         cookie |-> opts.cookie]

RedirectStatuses == {301, 302, 303, 307, 308}

\* loc.startsWith('http') ? loc : `${parsedUrl.protocol}//${parsedUrl.hostname}${loc}`
RedirectUrl(url, loc) ==
    LET parsedUrl == ParseUrl(url)
    IN  IF Head(loc) \in Protocols THEN loc
        ELSE <<parsedUrl.protocol, "/", "/">> \o parsedUrl.hostname \o loc

\* { ...options, method: 'GET', body: undefined }
RedirectOptions(opts) == [opts EXCEPT !.method = "GET", !.body = <<>>]

NoFetch == [state |-> "none", url |-> <<>>, options |-> <<>>, original |-> <<>>,
            followed |-> <<>>, result |-> <<>>]

NoProbe == [state |-> "none"]

----------------------------------------------------------------------------
\* Tokens of a page

Tag(t) == [t |-> t, s |-> <<>>]

Text(s) == [t |-> "text", s |-> s]

TableGrid == "table id=GridView1"

\* The index of the first token with tag t at or after position i, 0 if none.
RECURSIVE IndexFrom(_, _, _)
IndexFrom(toks, t, i) ==
    IF i > Len(toks) THEN 0
    ELSE IF toks[i].t = t THEN i
    ELSE IndexFrom(toks, t, i + 1)

\* The index of the last token with tag t, 0 if none.
RECURSIVE LastIndex(_, _, _)
LastIndex(toks, t, i) ==
    IF i < 1 THEN 0
    ELSE IF toks[i].t = t THEN i
    ELSE LastIndex(toks, t, i - 1)

\* matchAll(/<open[^>]*>([\s\S]*?)<\/open>/gi): the captured contents of the
\* leftmost, lazy, non-overlapping matches, scanning from position i.
RECURSIVE MatchAll(_, _, _)
MatchAll(toks, open, i) ==
    LET a == IndexFrom(toks, open, i)
        b == IF a = 0 THEN 0 ELSE IndexFrom(toks, "/" \o open, a + 1)
    IN  IF b = 0 THEN <<>>
        ELSE <<SubSeq(toks, a + 1, b - 1)>> \o MatchAll(toks, open, b + 1)

\* html.match(/<table[^>]+id="GridView1"[^>]*>([\s\S]*)<\/table>/i): from the
\* first GridView1 tag, greedily to the last </table> of the page.
GridMatch(toks) ==
    LET a == IndexFrom(toks, TableGrid, 1)
        b == LastIndex(toks, "/table", Len(toks))
    IN  IF a = 0 \/ b <= a THEN [found |-> FALSE, body |-> <<>>]
        ELSE [found |-> TRUE, body |-> SubSeq(toks, a + 1, b - 1)]

\* tableHtml.replace(/<caption[^>]*>[\s\S]*?<\/caption>/gi, ''): each caption
\* tag up to the first </caption> after it is deleted.
RECURSIVE RemoveCaptions(_)
RemoveCaptions(toks) ==
    LET a == IndexFrom(toks, "caption", 1)
        b == IF a = 0 THEN 0 ELSE IndexFrom(toks, "/caption", a + 1)
    IN  IF b = 0 THEN toks
        ELSE SubSeq(toks, 1, a - 1) \o RemoveCaptions(SubSeq(toks, b + 1, Len(toks)))

\* c[1].replace(/<[^>]+>/g, ''): the text runs of a cell, tags dropped.
RECURSIVE StripTags(_)
StripTags(toks) ==
    IF toks = <<>> THEN <<>>
    ELSE (IF Head(toks).t = "text" THEN Head(toks).s ELSE <<>>) \o StripTags(Tail(toks))

CellTextsOf(row) ==
    LET cs == MatchAll(row, "td", 1)
    IN  [i \in 1..Len(cs) |-> Trim(StripTags(cs[i]))]

StatusMutant(generation) ==
    IF Greater(generation, 50) \/ generation.v = 50 * Scale THEN "peak"
    ELSE IF Greater(generation, 10) THEN "active" ELSE "base"

Status(generation) ==
    IF Greater(generation, 50) THEN "peak"
    ELSE IF Greater(generation, 10) THEN "active" ELSE "base"

MakePeriod(cells) ==
    LET generation == ParseFloat(cells[2])
    IN  [time |-> cells[1], generation |-> generation,
         status |-> Status(generation), source |-> "USACE Real-time"]

RowQualifies(cells) ==
    /\ Len(cells) >= 2
    /\ cells[1] # <<>>
    /\ GenMatch(cells[2])

\* The loop over rows[1..] (row 0 skipped), pushing one period per
\* qualifying row.
RECURSIVE PeriodsOfRows(_, _)
PeriodsOfRows(rows, i) ==
    IF i > Len(rows) THEN <<>>
    ELSE LET cells == CellTextsOf(rows[i])
         IN  (IF RowQualifies(cells) THEN <<MakePeriod(cells)>> ELSE <<>>)
             \o PeriodsOfRows(rows, i + 1)

ParseGenerationTable(toks) ==
    LET gridMatch == GridMatch(toks)
    IN  IF ~gridMatch.found THEN <<>>
        ELSE LET tableWithoutCaption == RemoveCaptions(gridMatch.body)
                 rows == MatchAll(tableWithoutCaption, "tr", 1)
             IN  PeriodsOfRows(rows, 2)

\* The copy of parseGenerationTable in the parser test (test-scraper.js).
\* html.match(/<table[^>]+id="GridView1"[^>]*>([\s\S]*?)<\/table>/i): from
\* the first GridView1 tag, lazily to the first </table> after it.
TestGridMatch(toks) ==
    LET a == IndexFrom(toks, TableGrid, 1)
        b == IF a = 0 THEN 0 ELSE IndexFrom(toks, "/table", a + 1)
    IN  IF b = 0 THEN [found |-> FALSE, body |-> <<>>]
        ELSE [found |-> TRUE, body |-> SubSeq(toks, a + 1, b - 1)]

\* The rest of the copy is the code of the scraper with logging added.
TestParseGenerationTable(toks) ==
    LET gridMatch == TestGridMatch(toks)
    IN  IF ~gridMatch.found THEN <<>>
        ELSE LET tableWithoutCaption == RemoveCaptions(gridMatch.body)
                 rows == MatchAll(tableWithoutCaption, "tr", 1)
             IN  PeriodsOfRows(rows, 2)

----------------------------------------------------------------------------
\* extractSelectOptions

\* An <option> tag with a value attribute, before or after selected.
OptionTag(value, selected) ==
    [t |-> "option", s |-> <<>>, value |-> value, selected |-> selected]

SelectTag(name) == "select name=" \o name

SelMatchMutant(toks, selectName) ==
    LET a == IndexFrom(toks, SelectTag("Plant_Selector"), 1)
        b == IF a = 0 THEN 0 ELSE IndexFrom(toks, "/select", a + 1)
    IN  IF b = 0 THEN [found |-> FALSE, body |-> <<>>]
        ELSE [found |-> TRUE, body |-> SubSeq(toks, a + 1, b - 1)]

\* html.match(/<select[^>]+name="selectName"[^>]*>([\s\S]*?)<\/select>/i):
\* from the first select tag with that name, lazily to the first </select>.
SelMatch(toks, selectName) ==
    LET a == IndexFrom(toks, SelectTag(selectName), 1)
        b == IF a = 0 THEN 0 ELSE IndexFrom(toks, "/select", a + 1)
    IN  IF b = 0 THEN [found |-> FALSE, body |-> <<>>]
        ELSE [found |-> TRUE, body |-> SubSeq(toks, a + 1, b - 1)]

KeepsOptionMutant(value) == value # <<>>

\* if (value && value !== '0')
KeepsOption(value) == value # <<>> /\ value # <<"0">>

\* The loop of re.exec with
\* /<option[^>]+value="([^"]*)"[^>]*>([^<]*)<\/option>/gi: an option tag, a
\* text without tags, </option>; the scan resumes after each match.
RECURSIVE OptionsFrom(_, _)
OptionsFrom(toks, i) ==
    LET a == IndexFrom(toks, "option", i)
    IN  IF a = 0 THEN <<>>
        ELSE LET hasText == a < Len(toks) /\ toks[a + 1].t = "text"
                 close == IF hasText THEN a + 2 ELSE a + 1
             IN  IF close <= Len(toks) /\ toks[close].t = "/option"
                 THEN LET value == Trim(toks[a].value)
                          text == Trim(IF hasText THEN toks[a + 1].s ELSE <<>>)
                      IN  (IF KeepsOption(value)
                           THEN <<[value |-> value, text |-> text]>> ELSE <<>>)
                          \o OptionsFrom(toks, close + 1)
                 ELSE OptionsFrom(toks, a + 1)

ExtractSelectOptions(toks, selectName) ==
    LET selMatch == SelMatch(toks, selectName)
    IN  IF ~selMatch.found THEN <<>> ELSE OptionsFrom(selMatch.body, 1)

----------------------------------------------------------------------------
\* extractFormFields

\* The markup of the input elements of a page is a sequence of pieces: an
\* attribute with its quoted value, or the > that ends a tag.
Attr(k, v) == [k |-> k, v |-> v]

TagEnd == [k |-> ">", v |-> ""]

Targets == <<"__VIEWSTATE", "__VIEWSTATEGENERATOR", "__EVENTVALIDATION", "__LASTFOCUS">>

\* The index of the first > at or after position i, Len + 1 if none.
RECURSIVE TagEndFrom(_, _)
TagEndFrom(pieces, i) ==
    IF i > Len(pieces) \/ pieces[i] = TagEnd THEN i ELSE TagEndFrom(pieces, i + 1)

\* The positions of the value attributes after position i and before j.
ValuesBetween(pieces, i, j) == {n \in (i + 1)..(j - 1) : pieces[n].k = "value"}

FirstOf(S) == CHOOSE n \in S : \A m \in S : n <= m

LastOf(S) == CHOOSE n \in S : \A m \in S : m <= n

\* html.match(/key="field"[^>]*value="([^"]*)"/i): the leftmost attribute
\* key="field" that has a value attribute after it in its own tag; [^>]* is
\* greedy, so the value captured is the last one of the tag.
SameTagMatch(pieces, key, field) ==
    LET starts == {i \in 1..Len(pieces) :
                     /\ pieces[i] = Attr(key, field)
                     /\ ValuesBetween(pieces, i, TagEndFrom(pieces, i)) # {}}
    IN  IF starts = {} THEN <<>>
        ELSE LET i == FirstOf(starts)
             IN  <<pieces[LastOf(ValuesBetween(pieces, i, TagEndFrom(pieces, i)))].v>>

\* html.match(/name="field"[\s\S]*?value="([^"]*)"/i): the leftmost attribute
\* name="field" that has a value attribute anywhere after it; [\s\S]*? is
\* lazy, so the value captured is the nearest one, in whatever tag it is.
AnyTagMatch(pieces, field) ==
    LET starts == {i \in 1..Len(pieces) :
                     /\ pieces[i] = Attr("name", field)
                     /\ ValuesBetween(pieces, i, Len(pieces) + 1) # {}}
    IN  IF starts = {} THEN <<>>
        ELSE LET i == FirstOf(starts)
             IN  <<pieces[FirstOf(ValuesBetween(pieces, i, Len(pieces) + 1))].v>>

\* The three patterns of one field in turn; the first that matches gives the
\* value, <<>> if none matches.
FieldValue(pieces, field) ==
    LET m1 == SameTagMatch(pieces, "name", field)
        m2 == SameTagMatch(pieces, "id", field)
        m3 == AnyTagMatch(pieces, field)
    IN  IF m1 # <<>> THEN m1 ELSE IF m2 # <<>> THEN m2 ELSE m3

\* The mapping returned: for each target <<value>>, or <<>> for a field that
\* is not in the mapping.
ExtractFormFields(pieces) ==
    [n \in 1..Len(Targets) |-> FieldValue(pieces, Targets[n])]

----------------------------------------------------------------------------
\* Pages: the documents the parser is run on, and their markup

TimeText == <<"1", "a", "m">>

Td(s) == [tag |-> "td", wrap |-> FALSE, s |-> s]

Th(s) == [tag |-> "th", wrap |-> FALSE, s |-> s]

HeaderRow == <<Th(<<"T">>), Th(<<"M", "W">>)>>

\* Second-cell texts of a data row.
GenTexts ==
    { <<"0">>, <<"1", "0">>, <<"1", "0", ".", "5">>, <<"5", "0">>, <<"5", "1">>,
      <<"6", "4">>, <<"6", "4", " ", "M", "W">>, <<"a", "b", "c">>, <<".">>,
      <<"1", ".", "2", ".", "3">>, <<" ", "6", " ">>, <<>> }

\* Rows of the results table: a header, a time and a generation cell, and
\* the shapes the row filter has to tell apart.
AllRows ==
    {HeaderRow}
    \cup { <<Td(TimeText), Td(g)>> : g \in GenTexts }
    \cup { <<Td(<<>>), Td(<<"6", "4">>)>>,
           <<Td(TimeText)>>,
           <<Td(TimeText), Td(<<"1", "1", "7">>), Td(<<"x">>)>>,
           <<Td(TimeText), [tag |-> "td", wrap |-> TRUE, s |-> <<"4", "2">>]>> }

CoreRows ==
    { HeaderRow,
      <<Td(TimeText), Td(<<"6", "4">>)>>,
      <<Td(TimeText), Td(<<"1", "0">>)>>,
      <<Td(TimeText), Td(<<"a", "b", "c">>)>> }

CaptionKinds == {"none", "text", "nested", "nestedcap"}

Layouts == [pre : BOOLEAN, grid : BOOLEAN, caption : CaptionKinds, post : BOOLEAN]

PlainLayout == [pre |-> FALSE, grid |-> TRUE, caption |-> "none", post |-> FALSE]

RowSeqs(K, n) == UNION { [1..m -> K] : m \in 0..n }

Docs(n) ==
    { [layout |-> l, rows |-> r] : l \in Layouts, r \in RowSeqs(CoreRows, n) }
    \cup { [layout |-> PlainLayout, rows |-> r] : r \in RowSeqs(AllRows, n) }

RenderCell(c) ==
    <<Tag(c.tag)>>
    \o (IF c.wrap THEN <<Tag("span")>> ELSE <<>>)
    \o (IF c.s = <<>> THEN <<>> ELSE <<Text(c.s)>>)
    \o (IF c.wrap THEN <<Tag("/span")>> ELSE <<>>)
    \o <<Tag("/" \o c.tag)>>

RECURSIVE RenderCells(_)
RenderCells(cs) == IF cs = <<>> THEN <<>> ELSE RenderCell(Head(cs)) \o RenderCells(Tail(cs))

RenderRow(r) == <<Tag("tr")>> \o RenderCells(r) \o <<Tag("/tr")>>

RECURSIVE RenderRows(_)
RenderRows(rs) == IF rs = <<>> THEN <<>> ELSE RenderRow(Head(rs)) \o RenderRows(Tail(rs))

\* Rows of the tables that are not the results table.
PreRows == <<HeaderRow, <<Td(<<"p">>), Td(<<"7">>)>>>>

PostRows == <<HeaderRow, <<Td(<<"q">>), Td(<<"5">>)>>>>

NestedRows == <<<<Td(<<"x">>), Td(<<"1">>)>>, <<Td(<<"y">>), Td(<<"2">>)>>>>

RenderTable(open, caption, rows) ==
    <<Tag(open)>> \o caption \o RenderRows(rows) \o <<Tag("/table")>>

RenderCaption(kind) ==
    CASE kind = "none" -> <<>>
      [] kind = "text" -> <<Tag("caption"), Text(<<"c">>), Tag("/caption")>>
      [] kind = "nested" ->
            <<Tag("caption")>> \o RenderTable("table", <<>>, NestedRows) \o <<Tag("/caption")>>
      [] kind = "nestedcap" ->
            <<Tag("caption")>>
            \o RenderTable("table", <<Tag("caption"), Text(<<"c">>), Tag("/caption")>>, NestedRows)
            \o <<Tag("/caption")>>

Render(doc) ==
    (IF doc.layout.pre THEN RenderTable("table", <<>>, PreRows) ELSE <<>>)
    \o RenderTable(IF doc.layout.grid THEN TableGrid ELSE "table",
                   RenderCaption(doc.layout.caption), doc.rows)
    \o (IF doc.layout.post THEN RenderTable("table", <<>>, PostRows) ELSE <<>>)

\* Pages with select controls: the plant selector, the date selector and a
\* further control, as the server writes them.
OptionValues ==
    { <<>>, <<"0">>, <<"2/16/2026">>, <<"2/17/2026">>, <<" ", "2/17/2026", " ">> }

OptionTexts == { <<"Select">>, <<" ", "Tue 2/17/2026", " ">> }

OptionKinds == [value : OptionValues, text : OptionTexts, selected : BOOLEAN]

Option(value, text) == [value |-> value, text |-> text, selected |-> FALSE]

SelectDocs ==
    [plant : BOOLEAN, date : BOOLEAN, after : BOOLEAN,
     options : RowSeqs(OptionKinds, MaxOptions)]

RenderOption(o) ==
    <<OptionTag(o.value, o.selected)>>
    \o (IF o.text = <<>> THEN <<>> ELSE <<Text(o.text)>>)
    \o <<Tag("/option")>>

RECURSIVE RenderOptions(_)
RenderOptions(os) ==
    IF os = <<>> THEN <<>> ELSE RenderOption(Head(os)) \o RenderOptions(Tail(os))

RenderSelect(name, os) ==
    <<Tag(SelectTag(name))>> \o RenderOptions(os) \o <<Tag("/select")>>

PlantOptions == <<Option(<<"0">>, <<"Select">>), Option(<<"2">>, <<"Buford">>)>>

AfterOptions == <<Option(<<"9">>, <<"Unit">>)>>

RenderSelects(doc) ==
    (IF doc.plant THEN RenderSelect("Plant_Selector", PlantOptions) ELSE <<>>)
    \o (IF doc.date THEN RenderSelect("Date_Selector", doc.options) ELSE <<>>)
    \o (IF doc.after THEN RenderSelect("Unit_Selector", AfterOptions) ELSE <<>>)

\* Input elements: a hidden field of ASP.NET or a submit button, with its
\* attributes in the order the server writes them or in another one.
InputNames == {"__VIEWSTATE", "__EVENTVALIDATION", "Button1"}

AttributeOrders ==
    { <<"name", "id", "value">>, <<"id", "value", "name">>,
      <<"value", "name", "id">>, <<"name", "value">> }

InputValues == {"a", "b"}

Inputs == [name : InputNames, order : AttributeOrders, value : InputValues]

InputDocs(n) == RowSeqs(Inputs, n)

RenderInput(e) ==
    <<Attr("type", "hidden")>>
    \o [i \in 1..Len(e.order) |->
          Attr(e.order[i], IF e.order[i] = "value" THEN e.value ELSE e.name)]
    \o <<TagEnd>>

RECURSIVE RenderInputs(_)
RenderInputs(es) ==
    IF es = <<>> THEN <<>> ELSE RenderInput(Head(es)) \o RenderInputs(Tail(es))

----------------------------------------------------------------------------
\* Documents: ScrapeResult, DaySchedule, statistics

\* A source label, cut where the fallback label differs from the live one.
LiveSource == <<"USACE Hydropower Website">>

FallbackSourceMutant == LiveSource

FallbackSource == <<"USACE Hydropower Website", " (", "Fallback", ")">>

\* JavaScript objects with string keys keep insertion order: schedules is
\* the sequence of its entries, each under its key.
HasKey(scheds, key) == \E i \in 1..Len(scheds) : scheds[i].key = key

\* results.schedules[key] = sched
Put(scheds, key, sched) ==
    LET entry == [key |-> key, date |-> sched.date, dateValue |-> sched.dateValue,
                  success |-> sched.success, periods |-> sched.periods,
                  scrapedAt |-> sched.scrapedAt]
    IN  IF HasKey(scheds, key)
        THEN [i \in 1..Len(scheds) |-> IF scheds[i].key = key THEN entry ELSE scheds[i]]
        ELSE Append(scheds, entry)

\* Object.values(results.schedules).flatMap(s => s.periods)
RECURSIVE AllPeriods(_)
AllPeriods(scheds) ==
    IF scheds = <<>> THEN <<>> ELSE Head(scheds).periods \o AllPeriods(Tail(scheds))

AnyNaN(gens) == \E i \in 1..Len(gens) : gens[i].nan

\* gens.reduce((a, b) => a + b, 0) in double arithmetic, left to right.
RECURSIVE SumDoubles(_, _)
SumDoubles(gens, n) ==
    IF n = 0 THEN ToDouble(0, 1)
    ELSE AddDouble(SumDoubles(gens, n - 1), ToDouble(gens[n].v, Scale))

\* Math.floor in place of Math.round.
MathFloor(x) ==
    LET Floor(a) ==
            IF a.e >= 0 THEN BitsNat(ShiftLeft(a.m, a.e))
            ELSE LET k == 0 - a.e
                 IN  IF k > Len(a.m) THEN 0 ELSE BitsNat(SubSeq(a.m, k + 1, Len(a.m)))
    IN  CHOOSE r \in {Floor(a) : a \in {x}} : TRUE

AverageGenerationMutant(gens) ==
    IF AnyNaN(gens) THEN NaN
    ELSE Num(MathFloor(DivDouble(SumDoubles(gens, Len(gens)), Len(gens))) * Scale)

\* Math.round(gens.reduce((a, b) => a + b, 0) / gens.length)
AverageGeneration(gens) ==
    IF AnyNaN(gens) THEN NaN
    ELSE Num(MathRound(DivDouble(SumDoubles(gens, Len(gens)), Len(gens))) * Scale)

\* Math.max(...gens): NaN if any argument is NaN.
PeakGeneration(gens) ==
    IF AnyNaN(gens) THEN NaN
    ELSE Num(CHOOSE v \in {gens[i].v : i \in 1..Len(gens)} :
                \A i \in 1..Len(gens) : gens[i].v <= v)

\* Math.min(...gens): NaN if any argument is NaN.
MinGeneration(gens) ==
    IF AnyNaN(gens) THEN NaN
    ELSE Num(CHOOSE v \in {gens[i].v : i \in 1..Len(gens)} :
                \A i \in 1..Len(gens) : gens[i].v >= v)

\* The statistics block; the four aggregates exist only when aggregated.
InitialStatistics(totalDays) ==
    [totalDays |-> totalDays, aggregated |-> FALSE, totalPeriods |-> 0,
     averageGeneration |-> Num(0), peakGeneration |-> Num(0), minGeneration |-> Num(0)]

StatisticsOfMutant(statistics, scheds) ==
    LET allPeriods == AllPeriods(scheds)
        gens == [i \in 1..Len(allPeriods) |-> allPeriods[i].generation]
    IN  IF Len(allPeriods) > 0
        THEN [totalDays |-> Len(scheds), aggregated |-> TRUE,
              totalPeriods |-> Len(allPeriods),
              averageGeneration |-> AverageGeneration(gens),
              peakGeneration |-> PeakGeneration(gens),
              minGeneration |-> MinGeneration(gens)]
        ELSE statistics

\* The statistics scrapeData leaves after the date loop.
StatisticsOf(statistics, scheds) ==
    LET allPeriods == AllPeriods(scheds)
        gens == [i \in 1..Len(allPeriods) |-> allPeriods[i].generation]
    IN  IF Len(allPeriods) > 0
        THEN [totalDays |-> statistics.totalDays, aggregated |-> TRUE,
              totalPeriods |-> Len(allPeriods),
              averageGeneration |-> AverageGeneration(gens),
              peakGeneration |-> PeakGeneration(gens),
              minGeneration |-> MinGeneration(gens)]
        ELSE statistics

FallbackPeriod(time, generation, status) ==
    [time |-> <<time>>, generation |-> Num(generation * Scale), status |-> status,
     source |-> "Fallback"]

\* The local calendar of the machine around the night the clocks go back:
\* three days, the second of 25 hours.  An instant is a number of hours
\* since the first of the three midnights.
LocalDays == <<"10/31/2026", "11/1/2026", "11/2/2026">>

DayLengths == <<24, 25, 24>>

\* Instants at which the fallback can be built: 10 o'clock in the morning
\* and the last hour of the second day.
Instants == {34, 48}

RECURSIVE DayOf(_, _)
DayOf(t, d) == IF t < DayLengths[d] THEN d ELSE DayOf(t - DayLengths[d], d + 1)

\* d => d.toLocaleDateString('en-US')
Fmt(t) == <<LocalDays[DayOf(t, 1)]>>

\* createFallbackData at the instant today: yesterday is 86400000 ms, 24
\* hours, earlier; the schedules literal has the two computed keys in order.
CreateFallbackData(today) ==
    LET yesterday == today - 24
    IN  [source |-> FallbackSource,
         schedules |->
            Put(Put(<<>>, Fmt(yesterday),
                    [date |-> Fmt(yesterday), dateValue |-> Fmt(yesterday),
                     success |-> FALSE,
                     periods |-> << FallbackPeriod("5:00 pm - 6:00 pm", 42, "active"),
                                    FallbackPeriod("6:00 pm - 7:00 pm", 117, "peak"),
                                    FallbackPeriod("7:00 pm - 8:00 pm", 42, "active") >>,
                     scrapedAt |-> today]),
                Fmt(today),
                [date |-> Fmt(today), dateValue |-> Fmt(today), success |-> FALSE,
                 periods |-> << FallbackPeriod("5:00 pm - 6:00 pm", 64, "active"),
                                FallbackPeriod("6:00 pm - 7:00 pm", 64, "active"),
                                FallbackPeriod("7:00 pm - 8:00 pm", 64, "active") >>,
                 scrapedAt |-> today]),
         statistics |->
            [totalDays |-> 2, aggregated |-> TRUE, totalPeriods |-> 6,
             averageGeneration |-> Num(64 * Scale), peakGeneration |-> Num(117 * Scale),
             minGeneration |-> Num(42 * Scale)]]

\* JSON.stringify(data, null, 2): the document as the file holds it.  A
\* number is written as itself, NaN as null.
Null == [nan |-> FALSE, v |-> 0, null |-> TRUE]

JsonNumber(g) == IF g.nan THEN Null ELSE g

JsonPeriods(ps) ==
    [i \in 1..Len(ps) |-> [ps[i] EXCEPT !.generation = JsonNumber(@)]]

JsonSchedules(scheds) ==
    [i \in 1..Len(scheds) |-> [scheds[i] EXCEPT !.periods = JsonPeriods(@)]]

JsonStatistics(statistics) ==
    [statistics EXCEPT !.averageGeneration = JsonNumber(@),
                       !.peakGeneration = JsonNumber(@),
                       !.minGeneration = JsonNumber(@)]

Stringify(doc) ==
    [doc EXCEPT !.schedules = JsonSchedules(@), !.statistics = JsonStatistics(@)]

----------------------------------------------------------------------------
\* What the server can answer

\* Options of Date_Selector.
DateOptions ==
    { Option(<<"2/16/2026">>, <<"2/16/2026">>),
      Option(<<"2/17/2026">>, <<"Tue 2/17/2026">>) }

\* A list in which the server offers the same date twice.
RepeatedDates ==
    << Option(<<"2/16/2026">>, <<"2/16/2026">>),
       Option(<<"2/17/2026">>, <<"Tue 2/17/2026">>),
       Option(<<"2/16/2026">>, <<"2/16/2026">>) >>

DateLists == UNION { [1..n -> DateOptions] : n \in 0..MaxDates } \cup {RepeatedDates}

\* Bodies of the response to the plant POST: no Date_Selector at all, an
\* empty one, or one with a placeholder option and a list of dates.
PlantPages(lists) ==
    { [plant |-> TRUE, date |-> d, after |-> FALSE, options |-> <<>>] : d \in BOOLEAN }
    \cup { [plant |-> TRUE, date |-> TRUE, after |-> FALSE,
            options |-> <<Option(<<"0">>, <<"Select">>)>> \o ds] : ds \in lists }

Row2(time, gen) == <<Td(time), Td(gen)>>

PageOf(rows) == [layout |-> PlainLayout, rows |-> <<HeaderRow>> \o rows]

\* Bodies of the response to a date POST.
SamplePages ==
    { PageOf(<<Row2(<<"1", "a", "m">>, <<"0", ".", "1">>),
               Row2(<<"2", "a", "m">>, <<"0", ".", "1">>)>>),
      PageOf(<<Row2(<<"1", "a", "m">>, <<"4", ".", "3">>)>>),
      PageOf(<<Row2(<<"1", "a", "m">>, <<"6", "4">>),
               Row2(<<"2", "a", "m">>, <<"5", "1">>)>>),
      PageOf(<<Row2(<<"1", "a", "m">>, <<".">>)>>),
      PageOf(<<Row2(<<"b", "a", "d">>, <<"a", "b", "c">>)>>) }

\* The hidden fields extractFormFields finds in a body: -1 for a field that
\* is not in the mapping, 0 for the empty string, n for the token of the
\* n-th response.
NoFields == [viewstate |-> -1, generator |-> -1, validation |-> -1]

AllFields(n) == [viewstate |-> n, generator |-> n, validation |-> n]

EmptyViewState(n) == [viewstate |-> 0, generator |-> n, validation |-> n]

FieldSets(n) == {NoFields, AllFields(n)}

HasViewStateMutant(fields) == fields.viewstate >= 0

\* formFields.__VIEWSTATE is truthy
HasViewState(fields) == fields.viewstate > 0

\* Object.keys(newFormFields).length > 0
HasKeys(fields) ==
    fields.viewstate >= 0 \/ fields.generator >= 0 \/ fields.validation >= 0

\* A Set-Cookie header is a sequence of cookies, each a sequence of parts
\* separated by semicolons: the name=value pair, then attributes.
Pair(name, value) == [name |-> name, value |-> value]

SetCookie(n) == << <<Pair("sid", n), Pair("path", 0)>>, <<Pair("lb", n)>> >>

\* extractCookies: the first part of each cookie, '' (here <<>>) without a
\* Set-Cookie header.
ExtractCookies(setCookie) ==
    [i \in 1..Len(setCookie) |-> setCookie[i][1]]

RenewedCookieMutant(stored, setCookie) == stored \o ExtractCookies(setCookie)

\* if (newCookie) this.cookie = newCookie
RenewedCookie(stored, setCookie) ==
    LET newCookie == ExtractCookies(setCookie)
    IN  IF newCookie # <<>> THEN newCookie ELSE stored

\* The site as the scraper meets it.  One site keeps no session: it sets no
\* cookie and serves every date list and every sample page.  The other sets
\* cookies, on any of its responses, and serves one page for every date.
PlainServer == [cookies |-> FALSE, lists |-> DateLists, bodies |-> SamplePages]

SessionServer ==
    [cookies |-> TRUE,
     lists |-> UNION { [1..n -> DateOptions] : n \in 0..MaxDates },
     bodies |-> { PageOf(<<Row2(<<"1", "a", "m">>, <<"4", ".", "3">>)>>) }]

\* The Set-Cookie headers the n-th response can carry, <<>> for none.
SetCookies(site, n) == IF site.cookies THEN {<<>>, SetCookie(n)} ELSE {<<>>}

----------------------------------------------------------------------------
\* run: init, scrapeData, saveData, and the fallback of the catch block

NoFiles == [latest |-> <<>>, backup |-> <<>>, summary |-> <<>>]

NoResults == [source |-> <<>>, schedules |-> <<>>, statistics |-> InitialStatistics(0)]

Init ==
    /\ html = <<>>
    /\ periods = <<>>
    /\ parsed = FALSE
    /\ options = <<>>
    /\ extracted = <<>>
    /\ copyPeriods = <<>>
    /\ probe = NoProbe
    /\ fetch = NoFetch
    /\ wire = <<>>
    /\ pc = "start"
    /\ phase = "primary"
    /\ dates = <<>>
    /\ idx = 0
    /\ results = NoResults
    /\ attempts = <<>>
    /\ data = <<>>
    /\ files = NoFiles
    /\ returned = <<>>
    /\ exitCode = -1
    /\ formFields = NoFields
    /\ requests = <<>>
    /\ responses = <<>>
    /\ inflight = 0
    /\ errors = <<>>
    /\ cookie = <<>>
    /\ server = PlainServer

\* formFields.X || ''
Sent(x) == IF x > 0 THEN x ELSE 0

\* fetchPage(this.baseUrl)
GetRequest == [step |-> "initial", method |-> "GET", body |-> <<>>, cookie |-> <<>>]

\* The URLSearchParams of a POST: the event target, the three hidden fields
\* and the date, <<>> in the plant POST.
PostBody(target, fields, date) ==
    [target |-> target, viewstate |-> Sent(fields.viewstate),
     generator |-> Sent(fields.generator), validation |-> Sent(fields.validation),
     date |-> date]

PlantRequest(fields, sent) ==
    [step |-> "plant", method |-> "POST",
     body |-> <<PostBody("Plant_Selector", fields, <<>>)>>, cookie |-> sent]

DateRequest(fields, dateInfo, sent) ==
    [step |-> "date", method |-> "POST",
     body |-> <<PostBody("Date_Selector", fields, dateInfo.value)>>, cookie |-> sent]

ThrowMutant ==
    /\ errors' = Append(errors, [line |-> "Scraping failed", at |-> pc])
    /\ pc' = "exit"
    /\ exitCode' = 1
    /\ UNCHANGED <<phase, data>>

\* An exception inside run: in the try block the catch logs it, builds the
\* fallback document and saves it; in the catch block the inner catch logs
\* it and the process exits with code 1.
Throw ==
    IF phase = "primary"
    THEN /\ phase' = "fallback"
         /\ errors' = Append(errors, [line |-> "Scraping failed", at |-> pc])
         /\ \E today \in Instants : data' = <<CreateFallbackData(today)>>
         /\ pc' = "write_latest"
         /\ UNCHANGED exitCode
    ELSE /\ errors' = Append(errors, [line |-> "Fallback failed", at |-> pc])
         /\ pc' = "exit"
         /\ exitCode' = 1
         /\ UNCHANGED <<phase, data>>

NoThrow == UNCHANGED <<phase, data, exitCode, errors>>

\* The call in flight ends as resp.
Answered(resp) ==
    responses' = Append(responses, [outcome |-> resp.outcome, fields |-> resp.fields,
                                    setCookie |-> IF "setCookie" \in DOMAIN resp
                                                  THEN resp.setCookie ELSE <<>>,
                                    page |-> IF "page" \in DOMAIN resp
                                             THEN <<resp.page>> ELSE <<>>])

\* The call in flight has ended and no new one is made.
NoCall == requests' = requests /\ inflight' = inflight - 1

CallMutant(req) == requests' = Append(requests, req) /\ inflight' = inflight + 1

\* The call in flight has ended and the next one is made.
Call(req) == requests' = Append(requests, req) /\ inflight' = (inflight - 1) + 1

\* await this.init(): the output directory is created, or mkdir fails; then
\* scrapeData issues the initial GET.
RunInit ==
    /\ pc = "start"
    /\ \E ok \in BOOLEAN :
          IF ok THEN /\ pc' = "get"
                     /\ requests' = Append(requests, GetRequest)
                     /\ inflight' = inflight + 1
                     /\ NoThrow
          ELSE Throw /\ UNCHANGED <<requests, inflight>>
    /\ UNCHANGED <<dates, idx, results, attempts, files, returned, formFields, responses>>
    /\ UNCHANGED <<cookie, server>>
    /\ UNCHANGED pvars

\* Step 1: the initial GET ends.  A transport error or a status other than
\* 200 throws; so does a page without a __VIEWSTATE value; otherwise the
\* plant POST is issued with the hidden fields of the page.
InitialGet ==
    /\ pc = "get"
    /\ LET n == Len(responses) + 1
       IN  \/ /\ Answered([outcome |-> "error", fields |-> NoFields])
              /\ NoCall /\ Throw /\ UNCHANGED <<formFields, cookie>>
           \/ \E f \in FieldSets(n), setCookie \in SetCookies(server, n) :
                 /\ Answered([outcome |-> "status", fields |-> f,
                              setCookie |-> setCookie])
                 /\ NoCall /\ Throw /\ UNCHANGED <<formFields, cookie>>
           \/ \E f \in {NoFields, EmptyViewState(n), AllFields(n)},
                 setCookie \in SetCookies(server, n) :
                 /\ Answered([outcome |-> "ok", fields |-> f, setCookie |-> setCookie])
                 /\ cookie' = ExtractCookies(setCookie)
                 /\ formFields' = f
                 /\ IF HasViewState(f)
                    THEN /\ Call(PlantRequest(f, ExtractCookies(setCookie)))
                         /\ pc' = "plant" /\ NoThrow
                    ELSE NoCall /\ Throw
    /\ UNCHANGED <<dates, idx, results, attempts, files, returned, server>>
    /\ UNCHANGED pvars

\* Step 2: the plant POST ends.  On a 200 the hidden fields are replaced by
\* those of the response and the dates are read from Date_Selector; with no
\* date scrapeData throws, otherwise the results are set up and the POST
\* for the first date is issued.
PlantPost ==
    /\ pc = "plant"
    /\ LET n == Len(responses) + 1
       IN  \/ /\ Answered([outcome |-> "error", fields |-> NoFields])
              /\ NoCall /\ Throw /\ UNCHANGED <<formFields, dates, idx, results, cookie>>
           \/ \E f \in FieldSets(n), setCookie \in SetCookies(server, n) :
                 /\ Answered([outcome |-> "status", fields |-> f,
                              setCookie |-> setCookie])
                 /\ NoCall /\ Throw /\ UNCHANGED <<formFields, dates, idx, results, cookie>>
           \/ \E f \in FieldSets(n), page \in PlantPages(server.lists),
                 setCookie \in SetCookies(server, n) :
                 LET ds == ExtractSelectOptions(RenderSelects(page), "Date_Selector")
                     newCookie == RenewedCookie(cookie, setCookie)
                 IN  /\ Answered([outcome |-> "ok", fields |-> f, page |-> page,
                                  setCookie |-> setCookie])
                     /\ cookie' = newCookie
                     /\ formFields' = f
                     /\ dates' = ds
                     /\ IF Len(ds) = 0
                        THEN NoCall /\ Throw /\ UNCHANGED <<idx, results>>
                        ELSE /\ results' = [source |-> LiveSource, schedules |-> <<>>,
                                            statistics |-> InitialStatistics(Len(ds))]
                             /\ idx' = 1
                             /\ Call(DateRequest(f, ds[1], newCookie))
                             /\ pc' = "dates"
                             /\ NoThrow
    /\ UNCHANGED <<attempts, files, returned, server>>
    /\ UNCHANGED pvars

ShouldRecordMutant(sched) == TRUE

\* if (sched.periods.length > 0)
ShouldRecord(sched) == Len(sched.periods) > 0

ScrapeDateDataMutant(dateInfo, body, now) ==
    [date |-> dateInfo.text, dateValue |-> dateInfo.text, success |-> TRUE,
     periods |-> ParseGenerationTable(Render(body)), scrapedAt |-> now]

\* scrapeDateData on a 200 response with the given body; the clock of
\* scrapedAt is the number of responses received.
ScrapeDateData(dateInfo, body, now) ==
    [date |-> dateInfo.text, dateValue |-> dateInfo.value, success |-> TRUE,
     periods |-> ParseGenerationTable(Render(body)), scrapedAt |-> now]

\* The loop goes to the next date with the given hidden fields, or ends.
NextDate(fields, sent) ==
    /\ idx' = idx + 1
    /\ IF idx < Len(dates)
       THEN Call(DateRequest(fields, dates[idx + 1], sent)) /\ pc' = "dates"
       ELSE NoCall /\ pc' = "stats"

SkipDateMutant == idx' = idx + 1 /\ NoCall /\ pc' = "stats"

\* catch (err): the error is logged and the loop goes on.
SkipDate == NextDate(formFields, cookie)

\* One turn of the date loop: the date POST ends.  On a 200 the page is
\* parsed, the hidden fields are replaced if the page has any, and the
\* schedule is recorded if it has periods; an error is caught and the date
\* skipped.  Then the POST of the next date is issued.
ScrapeDate ==
    /\ pc = "dates"
    /\ idx <= Len(dates)
    /\ LET n == Len(responses) + 1
       IN  \/ /\ Answered([outcome |-> "error", fields |-> NoFields])
              /\ attempts' = Append(attempts, [date |-> dates[idx].value,
                                               outcome |-> "error"])
              /\ UNCHANGED <<results, formFields, cookie>>
              /\ SkipDate
           \/ \E f \in {AllFields(n)}, setCookie \in SetCookies(server, n) :
                 /\ Answered([outcome |-> "status", fields |-> f,
                              setCookie |-> setCookie])
                 /\ attempts' = Append(attempts, [date |-> dates[idx].value,
                                                  outcome |-> "status"])
                 /\ UNCHANGED <<results, formFields, cookie>>
                 /\ SkipDate
           \/ \E f \in FieldSets(n), body \in server.bodies,
                 setCookie \in SetCookies(server, n) :
                 LET sched == ScrapeDateData(dates[idx], body, n)
                     newFormFields == IF HasKeys(f) THEN f ELSE formFields
                     newCookie == RenewedCookie(cookie, setCookie)
                 IN  /\ Answered([outcome |-> "ok", fields |-> f,
                                  setCookie |-> setCookie])
                     /\ cookie' = newCookie
                     /\ formFields' = newFormFields
                     /\ results' = IF ShouldRecord(sched)
                                   THEN [results EXCEPT
                                            !.schedules = Put(@, dates[idx].value, sched)]
                                   ELSE results
                     /\ attempts' = Append(attempts,
                                           [date |-> dates[idx].value,
                                            outcome |-> IF Len(sched.periods) > 0
                                                        THEN "periods" ELSE "empty"])
                     /\ NextDate(newFormFields, newCookie)
    /\ UNCHANGED <<phase, dates, data, files, returned, exitCode, errors, server>>
    /\ UNCHANGED pvars

\* The end of scrapeData: the statistics over all recorded periods.
ComputeStatistics ==
    /\ pc = "stats"
    /\ results' = [results EXCEPT !.statistics = StatisticsOf(@, results.schedules)]
    /\ pc' = "scraped"
    /\ UNCHANGED <<phase, dates, idx, attempts, data, files, returned, exitCode>>
    /\ UNCHANGED <<formFields, requests, responses, inflight, errors>>
    /\ UNCHANGED <<cookie, server>>
    /\ UNCHANGED pvars

UseResultMutant ==
    /\ pc = "scraped"
    /\ IF Len(results.schedules) = 0
       THEN \E today \in Instants :
               data' = <<[results EXCEPT
                            !.schedules = CreateFallbackData(today).schedules]>>
       ELSE data' = <<results>>
    /\ pc' = "write_latest"
    /\ UNCHANGED <<phase, dates, idx, results, attempts, files, returned, exitCode>>
    /\ UNCHANGED <<formFields, requests, responses, inflight, errors>>
    /\ UNCHANGED <<cookie, server>>
    /\ UNCHANGED pvars

\* Back in run: a result without schedules is replaced by the fallback.
UseResult ==
    /\ pc = "scraped"
    /\ IF Len(results.schedules) = 0
       THEN \E today \in Instants : data' = <<CreateFallbackData(today)>>
       ELSE data' = <<results>>
    /\ pc' = "write_latest"
    /\ UNCHANGED <<phase, dates, idx, results, attempts, files, returned, exitCode>>
    /\ UNCHANGED <<formFields, requests, responses, inflight, errors>>
    /\ UNCHANGED <<cookie, server>>
    /\ UNCHANGED pvars

SummaryOf(doc) ==
    [totalSchedules |-> Len(doc.schedules), statistics |-> doc.statistics,
     latestData |-> IF doc.schedules = <<>> THEN <<>> ELSE <<Head(doc.schedules)>>]

\* JSON.stringify(summary, null, 2)
StringifySummary(summary) ==
    [summary EXCEPT !.statistics = JsonStatistics(@), !.latestData = JsonSchedules(@)]

\* saveData: the three writes, each of which can fail.
WriteLatest ==
    /\ pc = "write_latest"
    /\ \E ok \in BOOLEAN :
          IF ok THEN /\ files' = [files EXCEPT !.latest = <<Stringify(data[1])>>]
                     /\ pc' = "write_backup"
                     /\ NoThrow
          ELSE Throw /\ UNCHANGED files
    /\ UNCHANGED <<dates, idx, results, attempts, returned>>
    /\ UNCHANGED <<formFields, requests, responses, inflight>>
    /\ UNCHANGED <<cookie, server>>
    /\ UNCHANGED pvars

WriteBackup ==
    /\ pc = "write_backup"
    /\ \E ok \in BOOLEAN :
          IF ok THEN /\ files' = [files EXCEPT !.backup = <<Stringify(data[1])>>]
                     /\ pc' = "write_summary"
                     /\ NoThrow
          ELSE Throw /\ UNCHANGED files
    /\ UNCHANGED <<dates, idx, results, attempts, returned>>
    /\ UNCHANGED <<formFields, requests, responses, inflight>>
    /\ UNCHANGED <<cookie, server>>
    /\ UNCHANGED pvars

WriteSummary ==
    /\ pc = "write_summary"
    /\ \E ok \in BOOLEAN :
          IF ok THEN /\ files' = [files EXCEPT
                                    !.summary = <<StringifySummary(SummaryOf(data[1]))>>]
                     /\ pc' = "done"
                     /\ returned' = data
                     /\ NoThrow
          ELSE Throw /\ UNCHANGED <<files, returned>>
    /\ UNCHANGED <<dates, idx, results, attempts>>
    /\ UNCHANGED <<formFields, requests, responses, inflight>>
    /\ UNCHANGED <<cookie, server>>
    /\ UNCHANGED pvars

Next ==
    \/ RunInit
    \/ InitialGet
    \/ PlantPost
    \/ ScrapeDate
    \/ ComputeStatistics
    \/ UseResult
    \/ WriteLatest
    \/ WriteBackup
    \/ WriteSummary

Spec == Init /\ [][Next]_vars

\* The same run against the site that sets cookies.
InitSession ==
    /\ html = <<>>
    /\ periods = <<>>
    /\ parsed = FALSE
    /\ options = <<>>
    /\ extracted = <<>>
    /\ copyPeriods = <<>>
    /\ probe = NoProbe
    /\ fetch = NoFetch
    /\ wire = <<>>
    /\ pc = "start"
    /\ phase = "primary"
    /\ dates = <<>>
    /\ idx = 0
    /\ results = NoResults
    /\ attempts = <<>>
    /\ data = <<>>
    /\ files = NoFiles
    /\ returned = <<>>
    /\ exitCode = -1
    /\ formFields = NoFields
    /\ requests = <<>>
    /\ responses = <<>>
    /\ inflight = 0
    /\ errors = <<>>
    /\ cookie = <<>>
    /\ server = SessionServer

SpecSession == InitSession /\ [][Next]_vars

----------------------------------------------------------------------------
\* The parser on its own: a page is chosen, then parsed

\* The scraper is not running.
Idle ==
    /\ pc = "idle"
    /\ phase = "primary"
    /\ dates = <<>>
    /\ idx = 0
    /\ results = NoResults
    /\ attempts = <<>>
    /\ data = <<>>
    /\ files = NoFiles
    /\ returned = <<>>
    /\ exitCode = -1
    /\ formFields = NoFields
    /\ requests = <<>>
    /\ responses = <<>>
    /\ inflight = 0
    /\ errors = <<>>
    /\ cookie = <<>>
    /\ server = PlainServer

InitParse ==
    /\ html \in Docs(MaxRows)
    /\ periods = <<>>
    /\ parsed = FALSE
    /\ options = <<>>
    /\ extracted = <<>>
    /\ copyPeriods = <<>>
    /\ probe = NoProbe
    /\ fetch = NoFetch
    /\ wire = <<>>
    /\ Idle

Parse ==
    /\ ~parsed
    /\ periods' = ParseGenerationTable(Render(html))
    /\ copyPeriods' = TestParseGenerationTable(Render(html))
    /\ parsed' = TRUE
    /\ UNCHANGED <<html, options, extracted, probe, fetch, wire>>
    /\ UNCHANGED rvars

NextParse == Parse

SpecParse == InitParse /\ [][NextParse]_vars

----------------------------------------------------------------------------
\* extractSelectOptions on its own: a page is chosen, then read

InitSelect ==
    /\ html \in SelectDocs
    /\ periods = <<>>
    /\ parsed = FALSE
    /\ options = <<>>
    /\ extracted = <<>>
    /\ copyPeriods = <<>>
    /\ probe = NoProbe
    /\ fetch = NoFetch
    /\ wire = <<>>
    /\ Idle

Extract ==
    /\ ~parsed
    /\ html \in SelectDocs
    /\ options' = ExtractSelectOptions(RenderSelects(html), "Date_Selector")
    /\ parsed' = TRUE
    /\ UNCHANGED <<html, periods, extracted, copyPeriods, probe, fetch, wire>>
    /\ UNCHANGED rvars

NextSelect == Extract

SpecSelect == InitSelect /\ [][NextSelect]_vars

----------------------------------------------------------------------------
\* extractFormFields on its own: a page is chosen, then read

InitFields ==
    /\ html \in InputDocs(MaxInputs)
    /\ periods = <<>>
    /\ parsed = FALSE
    /\ options = <<>>
    /\ extracted = <<>>
    /\ copyPeriods = <<>>
    /\ probe = NoProbe
    /\ fetch = NoFetch
    /\ wire = <<>>
    /\ Idle

ExtractFields ==
    /\ ~parsed
    /\ extracted' = ExtractFormFields(RenderInputs(html))
    /\ parsed' = TRUE
    /\ UNCHANGED <<html, periods, options, copyPeriods, probe, fetch, wire>>
    /\ UNCHANGED rvars

NextFields == ExtractFields

SpecFields == InitFields /\ [][NextFields]_vars

----------------------------------------------------------------------------
\* The scrapeDateData that probes for the submit button (DEBUGGING.md), on
\* its own: it is called for one date, the server answers each POST

ButtonNames == <<"Button1", "btnSubmit", "Submit", "SubmitButton", "btnGo", "btnView">>

\* The POST for one candidate: no event target, the caller's hidden fields,
\* the date, and the candidate as the submit control.
ProbeRequest(dateInfo, fields, sent, buttonName) ==
    [method |-> "POST", cookie |-> sent, button |-> buttonName,
     body |-> PostBody("", fields, dateInfo.value)]

\* What the parseGenerationTable of this variant finds in a response body.
FoundPeriods ==
    { <<>>,
      <<[time |-> <<"1", "a", "m">>, generation |-> Num(64 * Scale), status |-> "peak",
         source |-> "USACE Real-time"]>> }

InitProbe ==
    /\ html = <<>>
    /\ periods = <<>>
    /\ parsed = FALSE
    /\ options = <<>>
    /\ extracted = <<>>
    /\ copyPeriods = <<>>
    /\ fetch = NoFetch
    /\ wire = <<>>
    /\ \E dateInfo \in DateOptions, f \in {NoFields, AllFields(1)} :
          probe = [state |-> "probing", dateInfo |-> dateInfo, formFields |-> f,
                   cookie |-> <<>>, i |-> 1,
                   posts |-> <<ProbeRequest(dateInfo, f, <<>>, ButtonNames[1])>>,
                   answers |-> <<>>, result |-> <<>>]
    /\ Idle

WorkedMutant(found) == TRUE

\* if (periods.length > 0)
Worked(found) == Len(found) > 0

\* The POST of the current candidate ends.  An error or a status other than
\* 200 throws; a page with periods is returned as the schedule; otherwise the
\* next candidate is posted, and after the last one the empty schedule is
\* returned.
ProbeResponse ==
    /\ probe.state = "probing"
    /\ LET n == Len(probe.answers) + 2
       IN  \/ probe' = [probe EXCEPT
                          !.state = "threw",
                          !.answers = Append(@, [outcome |-> "error", periods |-> <<>>])]
           \/ probe' = [probe EXCEPT
                          !.state = "threw",
                          !.answers = Append(@, [outcome |-> "status", periods |-> <<>>])]
           \/ \E newFormFields \in FieldSets(n), setCookie \in {<<>>, SetCookie(n)},
                 found \in FoundPeriods :
                 LET newCookie == RenewedCookie(probe.cookie, setCookie)
                     answers == Append(probe.answers,
                                       [outcome |-> "ok", periods |-> found])
                 IN  IF Worked(found)
                     THEN probe' = [probe EXCEPT
                                      !.state = "returned", !.cookie = newCookie,
                                      !.answers = answers,
                                      !.result =
                                         <<[date |-> probe.dateInfo.text,
                                            dateValue |-> probe.dateInfo.value,
                                            success |-> TRUE, periods |-> found,
                                            newFormFields |->
                                               IF HasKeys(newFormFields)
                                               THEN newFormFields
                                               ELSE probe.formFields]>>]
                     ELSE IF probe.i < Len(ButtonNames)
                     THEN probe' = [probe EXCEPT
                                      !.cookie = newCookie, !.answers = answers,
                                      !.i = @ + 1,
                                      !.posts = Append(@, ProbeRequest(probe.dateInfo,
                                                          probe.formFields, newCookie,
                                                          ButtonNames[probe.i + 1]))]
                     ELSE probe' = [probe EXCEPT
                                      !.state = "returned", !.cookie = newCookie,
                                      !.answers = answers,
                                      !.result =
                                         <<[date |-> probe.dateInfo.text,
                                            dateValue |-> probe.dateInfo.value,
                                            success |-> FALSE, periods |-> <<>>,
                                            newFormFields |-> probe.formFields]>>]
    /\ UNCHANGED <<html, periods, parsed, options, extracted, copyPeriods, fetch, wire>>
    /\ UNCHANGED rvars

NextProbe == ProbeResponse

SpecProbe == InitProbe /\ [][NextProbe]_vars

----------------------------------------------------------------------------
\* fetchPage on its own: a call is made, servers answer

BaseUrl == <<"https:", "/", "/", "usace", "/", "hydropower", "/">>

Urls == { BaseUrl, <<"http:", "/", "/", "usace", ":8080", "/", "hydropower", "/", "a">> }

\* Location headers: absolute, starting at the root, relative to the
\* directory of the page, starting with the host, and back to the page the
\* scraper starts from; <<>> for none.
Locations ==
    { <<"https:", "/", "/", "other", "/", "b">>, <<"/", "b">>, <<"b">>,
      <<"/", "/", "other", "/", "b">>, BaseUrl }

Statuses == RedirectStatuses \cup {200, 404}

CallOptions == [method : {"", "POST"}, body : {<<>>, <<"form">>}, cookie : {"c=1"}]

InitFetch ==
    /\ html = <<>>
    /\ periods = <<>>
    /\ parsed = FALSE
    /\ options = <<>>
    /\ extracted = <<>>
    /\ copyPeriods = <<>>
    /\ probe = NoProbe
    /\ \E url \in Urls, opts \in CallOptions :
          /\ fetch = [state |-> "pending", url |-> url, options |-> opts,
                      original |-> [url |-> url, options |-> opts],
                      followed |-> <<>>, result |-> <<>>]
          /\ wire = <<RequestOf(url, opts)>>
    /\ Idle

\* The histories keep the first MaxHops redirects of a call and the
\* requests they led to.
Record(history, x, most) == IF Len(history) < most THEN Append(history, x) ELSE history

\* The response callback: a redirect status with a Location makes fetchPage
\* call itself for the new URL, any number of times; any other response
\* resolves the call.  URLs longer than MaxUrl pieces are left out.
Respond ==
    /\ fetch.state = "pending"
    /\ \E status \in Statuses, loc \in Locations \cup {<<>>} :
          IF status \in RedirectStatuses /\ loc # <<>>
          THEN LET redirectUrl == RedirectUrl(fetch.url, loc)
                   opts == RedirectOptions(fetch.options)
               IN  /\ Len(redirectUrl) <= MaxUrl
                   /\ fetch' = [fetch EXCEPT
                                  !.url = redirectUrl, !.options = opts,
                                  !.followed = Record(@, [status |-> status,
                                                          location |-> loc], MaxHops)]
                   /\ wire' = Record(wire, RequestOf(redirectUrl, opts), MaxHops + 1)
          ELSE /\ fetch' = [fetch EXCEPT
                              !.state = "resolved",
                              !.result = <<[status |-> status, location |-> loc]>>]
               /\ UNCHANGED wire
    /\ UNCHANGED <<html, periods, parsed, options, extracted, copyPeriods, probe>>
    /\ UNCHANGED rvars

\* req.on('error') and the 30 s timeout: the call rejects.
RequestError ==
    /\ fetch.state = "pending"
    /\ fetch' = [fetch EXCEPT !.state = "rejected"]
    /\ UNCHANGED <<html, periods, parsed, options, extracted, copyPeriods, probe, wire>>
    /\ UNCHANGED rvars

NextFetch ==
    \/ Respond
    \/ RequestError

SpecFetch == InitFetch /\ [][NextFetch]_vars

\* Every request is answered or fails: as long as the call is pending, one
\* of the two callbacks runs.
SpecFetchLive == InitFetch /\ [][NextFetch]_vars /\ WF_vars(NextFetch)

----------------------------------------------------------------------------
\* Properties of parseGenerationTable, stated on the document that was
\* rendered, not on its markup

\* The visible text of a cell of the document.
CellText(c) == Trim(c.s)

IsPureNumeric(s) ==
    /\ s # <<>>
    /\ \A i \in 1..Len(s) : s[i] \in {"0", "1", "2", "3", "4", "5", "6", "7", "8", "9", "."}

\* A well-formed decimal number: digits with at most one dot, and a digit.
IsWellFormedNumber(s) ==
    /\ IsPureNumeric(s)
    /\ Cardinality({i \in 1..Len(s) : s[i] = "."}) <= 1
    /\ \E i \in 1..Len(s) : s[i] # "."

QualifyingRow(r) ==
    /\ Len(r) >= 2
    /\ CellText(r[1]) # <<>>
    /\ IsPureNumeric(CellText(r[2]))

\* The indices of the rows of the results table, other than row 0, that qualify.
QualifyingIndices(doc) == {i \in 2..Len(doc.rows) : QualifyingRow(doc.rows[i])}

RECURSIVE ExpectedFrom(_, _)
ExpectedFrom(rows, i) ==
    IF i > Len(rows) THEN <<>>
    ELSE (IF QualifyingRow(rows[i])
          THEN <<[time |-> CellText(rows[i][1]), generation |-> ParseFloat(CellText(rows[i][2]))]>>
          ELSE <<>>)
         \o ExpectedFrom(rows, i + 1)

TimeAndGeneration(ps) ==
    [i \in 1..Len(ps) |-> [time |-> ps[i].time, generation |-> ps[i].generation]]

C2_ExactlyQualifyingRows ==
    parsed =>
        TimeAndGeneration(periods)
            = (IF html.layout.grid THEN ExpectedFrom(html.rows, 2) ELSE <<>>)

\* C3: when the caption of the results table holds a nested table, its rows
\* are never returned as periods nor taken as the header row: the number of
\* periods is the number of qualifying data rows of the outer table.
C3_NestedRowsNotCounted ==
    (parsed /\ html.layout.grid /\ html.layout.caption \in {"nested", "nestedcap"}) =>
        /\ \A i \in 1..Len(periods) :
              \A j \in 1..Len(NestedRows) : periods[i].time # CellText(NestedRows[j][1])
        /\ Len(periods) = Cardinality(QualifyingIndices(html))

\* C4: no row of a table other than the results table, before or after it,
\* contributes a period, and a page without the results table yields none.
C4_OnlyGridView1 ==
    parsed =>
        /\ \A i \in 1..Len(periods) :
              /\ \A j \in 1..Len(PreRows) : periods[i].time # CellText(PreRows[j][1])
              /\ \A j \in 1..Len(PostRows) : periods[i].time # CellText(PostRows[j][1])
        /\ (~html.layout.grid => periods = <<>>)

\* The rows of every table of the page.
PageRows(doc) ==
    {doc.rows[i] : i \in 1..Len(doc.rows)}
    \cup {PreRows[i] : i \in 1..Len(PreRows)}
    \cup {PostRows[i] : i \in 1..Len(PostRows)}
    \cup {NestedRows[i] : i \in 1..Len(NestedRows)}

\* C9: every period has a generation that is a real number >= 0, the value
\* of a well-formed number in the second cell of a row of the page: a row
\* whose second cell is not a well-formed number is dropped.
C9_GenerationIsNumber ==
    parsed =>
        \A i \in 1..Len(periods) :
            /\ ~periods[i].generation.nan
            /\ periods[i].generation.v >= 0
            /\ \E r \in PageRows(html) :
                  /\ Len(r) >= 2
                  /\ IsWellFormedNumber(CellText(r[2]))
                  /\ ParseFloat(CellText(r[2])) = periods[i].generation

----------------------------------------------------------------------------
\* Properties of the documents of scrapeData and run

\* The documents at hand: the one being assembled, the one run holds, the
\* one it returned and the ones in the two output files.
LiveDocs == IF results.source = <<>> THEN {} ELSE {results}

HeldDocs ==
    {data[i] : i \in 1..Len(data)} \cup {returned[i] : i \in 1..Len(returned)}
    \cup {files.latest[i] : i \in 1..Len(files.latest)}
    \cup {files.backup[i] : i \in 1..Len(files.backup)}

PeriodsIn(doc) == AllPeriods(doc.schedules)

\* C5: no entry of schedules has an empty periods sequence, in the document
\* scrapeData assembles and in every document run holds, saves or returns.
C5_NoEmptySchedule ==
    \A doc \in LiveDocs \cup HeldDocs :
        \A i \in 1..Len(doc.schedules) : Len(doc.schedules[i].periods) > 0

\* scrapeData has finished, one date gave zero periods and was omitted while
\* another was recorded.
C5_Witness ==
    /\ pc = "scraped"
    /\ \E i \in 1..Len(attempts) :
          /\ attempts[i].outcome = "empty"
          /\ ~HasKey(results.schedules, attempts[i].date)
    /\ \E i \in 1..Len(attempts) : attempts[i].outcome = "periods"
    /\ Len(results.schedules) = 1

\* The statistics as the claims state them, in exact arithmetic.
RECURSIVE TotalOf(_)
TotalOf(gens) == IF gens = <<>> THEN 0 ELSE Head(gens).v + TotalOf(Tail(gens))

GenerationsOf(ps) == [i \in 1..Len(ps) |-> ps[i].generation]

\* round(mean): the integer nearest to the mean, halves upwards.
RoundedMean(gens) ==
    IF \E i \in 1..Len(gens) : gens[i].nan THEN NaN
    ELSE Num(((2 * TotalOf(gens) + Len(gens) * Scale) \div (2 * Len(gens) * Scale)) * Scale)

Greatest(gens) ==
    IF \E i \in 1..Len(gens) : gens[i].nan THEN NaN
    ELSE LET vs == {gens[i].v : i \in 1..Len(gens)}
         IN  Num(CHOOSE v \in vs : vs \subseteq 0..v)

Least(gens) ==
    IF \E i \in 1..Len(gens) : gens[i].nan THEN NaN
    ELSE LET vs == {gens[i].v : i \in 1..Len(gens)}
         IN  Num(CHOOSE v \in vs : \A w \in vs : ~(w < v))

IsWhole(g) == ~g.nan /\ g.v % Scale = 0

Agrees(statistics, ps) ==
    /\ statistics.aggregated
    /\ statistics.totalPeriods = Len(ps)
    /\ statistics.averageGeneration = RoundedMean(GenerationsOf(ps))
    /\ statistics.peakGeneration = Greatest(GenerationsOf(ps))
    /\ statistics.minGeneration = Least(GenerationsOf(ps))

\* The orders in which the schedules of a result could have been inserted.
Orders(n) == {f \in [1..n -> 1..n] : \A i, j \in 1..n : f[i] = f[j] => i = j}

Reordered(scheds, f) == [i \in 1..Len(scheds) |-> scheds[f[i]]]

\* The statistics scrapeData computes when the schedules are in order f.
Recomputed(f) ==
    StatisticsOf(InitialStatistics(results.statistics.totalDays),
                 Reordered(results.schedules, f))

\* C6 as stated: for a live result with at least one period totalPeriods is
\* the number of periods, averageGeneration is round(mean of all
\* generations), peakGeneration their maximum, minGeneration their minimum,
\* and the values are the same for every insertion order of the schedules.
C6_StatisticsAsStated ==
    (pc = "scraped" /\ PeriodsIn(results) # <<>>) =>
        /\ Agrees(results.statistics, PeriodsIn(results))
        /\ \A f \in Orders(Len(results.schedules)) : Recomputed(f) = results.statistics

\* C6 amended: totalPeriods, peakGeneration and minGeneration are the count,
\* the maximum and the minimum (NaN if a generation is NaN) for every
\* insertion order; averageGeneration is round(mean) and the same for every
\* insertion order when all generations are whole numbers.
C6_StatisticsAmended ==
    (pc = "scraped" /\ PeriodsIn(results) # <<>>) =>
        LET ps == PeriodsIn(results)
            gens == GenerationsOf(ps)
        IN  /\ \A f \in Orders(Len(results.schedules)) :
                  /\ Recomputed(f).aggregated
                  /\ Recomputed(f).totalPeriods = Len(ps)
                  /\ Recomputed(f).peakGeneration = Greatest(gens)
                  /\ Recomputed(f).minGeneration = Least(gens)
            /\ Recomputed([i \in 1..Len(results.schedules) |-> i]) = results.statistics
            /\ (\A i \in 1..Len(gens) : IsWhole(gens[i])) =>
                  \A f \in Orders(Len(results.schedules)) :
                      Recomputed(f).averageGeneration = RoundedMean(gens)

\* Two schedules of whole-number generations whose mean, 57.5, rounds up.
C6_Witness ==
    /\ pc = "scraped"
    /\ Len(results.schedules) = 2
    /\ \A i \in 1..Len(PeriodsIn(results)) : IsWhole(PeriodsIn(results)[i].generation)
    /\ results.statistics.totalPeriods = 4
    /\ results.statistics.averageGeneration = Num(58 * Scale)
    /\ results.statistics.peakGeneration = Num(64 * Scale)
    /\ results.statistics.minGeneration = Num(51 * Scale)

\* C7: in every document run returns, the fallback included, the statistics
\* agree with the schedules: count, rounded mean, maximum and minimum.
C7_StatisticsAgree ==
    \A i \in 1..Len(returned) : Agrees(returned[i].statistics, PeriodsIn(returned[i]))

\* C8: every period of every document run returns or saves has the status
\* its generation gives by the thresholds: > 50 peak, > 10 active, else base.
C8_StatusFromGeneration ==
    \A doc \in HeldDocs :
        \A i \in 1..Len(PeriodsIn(doc)) :
            LET p == PeriodsIn(doc)[i]
            IN  p.status = (IF ~p.generation.nan /\ p.generation.v > 50 * Scale THEN "peak"
                            ELSE IF ~p.generation.nan /\ p.generation.v > 10 * Scale
                                 THEN "active" ELSE "base")

Contains(label, word) == \E i \in 1..Len(label) : label[i] = word

HoldsFallbackPeriods(doc) ==
    \E i \in 1..Len(PeriodsIn(doc)) : PeriodsIn(doc)[i].source = "Fallback"

\* C10: a document with fallback periods has a source containing
\* 'Fallback'; a document assembled from live responses has the source
\* 'USACE Hydropower Website', without the marker; so no document carries
\* the live label while holding fallback periods.
C10_SourceTellsFallback ==
    /\ \A doc \in LiveDocs :
          /\ doc.source = <<"USACE Hydropower Website">>
          /\ ~Contains(doc.source, "Fallback")
          /\ ~HoldsFallbackPeriods(doc)
    /\ \A doc \in HeldDocs :
          /\ HoldsFallbackPeriods(doc) => Contains(doc.source, "Fallback")
          /\ ~HoldsFallbackPeriods(doc) =>
                doc \in LiveDocs \cup {Stringify(d) : d \in LiveDocs}
          /\ ~(doc.source = <<"USACE Hydropower Website">> /\ HoldsFallbackPeriods(doc))

\* run returned the fallback document after scrapeData had assembled a live
\* one with schedules.
C10_Witness ==
    /\ pc = "done"
    /\ Len(results.schedules) > 0
    /\ results.source = <<"USACE Hydropower Website">>
    /\ HoldsFallbackPeriods(returned[1])
    /\ Contains(returned[1].source, "Fallback")

----------------------------------------------------------------------------
\* Properties of run: failures, the session sequence, the output files

FallbackDocs == {CreateFallbackData(today) : today \in Instants}

\* The documents run holds or has returned, and the documents in the two
\* data files.
DocsInMemory ==
    {data[i] : i \in 1..Len(data)} \cup {returned[i] : i \in 1..Len(returned)}

DocsInFiles ==
    {files.latest[i] : i \in 1..Len(files.latest)}
    \cup {files.backup[i] : i \in 1..Len(files.backup)}

\* scrapeData has thrown: the first error of run was thrown at one of its
\* awaits.
ScrapeDataThrew == errors # <<>> /\ errors[1].at \in {"get", "plant"}

\* scrapeData has returned its result to run.
ScrapeDataCompleted ==
    /\ results.source # <<>>
    /\ idx = Len(dates) + 1
    /\ pc \notin {"stats", "scraped"}

\* C11: when scrapeData throws, or completes with zero recorded schedules,
\* the document run holds, saves and returns is the one createFallbackData
\* builds, and it has exactly two schedules.
C11_FallbackSubstituted ==
    (ScrapeDataThrew \/ (ScrapeDataCompleted /\ results.schedules = <<>>)) =>
        /\ data # <<>>
        /\ \A doc \in DocsInMemory : doc \in FallbackDocs /\ Len(doc.schedules) = 2
        /\ \A doc \in DocsInFiles :
              /\ doc \in {Stringify(d) : d \in FallbackDocs}
              /\ Len(doc.schedules) = 2
        /\ pc = "done" => returned = data

\* The plant response: the second fetchPage call has ended.
PlantAnswered == Len(responses) >= 2

\* The page has no Date_Selector, or one without a date: no option, or only
\* options with an empty value or the placeholder value '0'.
NoDateOptions(page) ==
    \/ ~page.date
    \/ \A i \in 1..Len(page.options) : Trim(page.options[i].value) \in {<<>>, <<"0">>}

PlantFailed ==
    /\ PlantAnswered
    /\ \/ responses[2].outcome # "ok"
       \/ NoDateOptions(responses[2].page[1])

DatePosts == {i \in 1..Len(requests) : requests[i].step = "date"}

Posts == {i \in 1..Len(requests) : requests[i].method = "POST"}

\* C12: if the plant POST fails, is answered with another status than 200
\* or with a page without Date_Selector options, no date POST is issued and
\* the document run holds, saves and returns is fallback data with
\* statistics.totalDays = 2.
C12_NoDatesIsFatal ==
    PlantFailed =>
        /\ DatePosts = {}
        /\ Len(requests) = 2
        /\ data # <<>>
        /\ \A doc \in DocsInMemory : doc \in FallbackDocs /\ doc.statistics.totalDays = 2
        /\ \A doc \in DocsInFiles :
              Contains(doc.source, "Fallback") /\ doc.statistics.totalDays = 2
        /\ pc = "done" => returned = data /\ returned[1].statistics.totalDays = 2

\* The plant response was a 200 with a Date_Selector holding only the
\* placeholder option, and run has returned the fallback.
C12_Witness ==
    /\ pc = "done"
    /\ PlantAnswered
    /\ responses[2].outcome = "ok"
    /\ responses[2].page[1].date
    /\ Len(responses[2].page[1].options) = 1
    /\ DatePosts = {}
    /\ returned[1].statistics.totalDays = 2

\* The initial GET has ended in a transport error, with another status than
\* 200, or with a page that has no __VIEWSTATE value.
InitialGetFailed ==
    /\ Len(responses) >= 1
    /\ \/ responses[1].outcome # "ok"
       \/ responses[1].fields.viewstate <= 0

\* C13: if the initial GET fails, has another status than 200 or its page
\* has no __VIEWSTATE, the GET is not repeated, no POST is issued, and the
\* document run holds, saves and returns is the fallback.
C13_MissingTokenIsFatal ==
    InitialGetFailed =>
        /\ Len(requests) = 1
        /\ Posts = {}
        /\ inflight = 0
        /\ data # <<>>
        /\ \A doc \in DocsInMemory : doc \in FallbackDocs
        /\ \A doc \in DocsInFiles : doc \in {Stringify(d) : d \in FallbackDocs}
        /\ pc = "done" => returned = data

\* The initial page came with status 200 and an empty __VIEWSTATE, and run
\* has returned the fallback without sending a POST.
C13_Witness ==
    /\ pc = "done"
    /\ Len(responses) = 1
    /\ responses[1].outcome = "ok"
    /\ responses[1].fields = EmptyViewState(1)
    /\ Posts = {}
    /\ returned[1] \in FallbackDocs

\* The dates of the date POSTs, in the order in which they were issued.
RECURSIVE PostedDates(_)
PostedDates(reqs) ==
    IF reqs = <<>> THEN <<>>
    ELSE (IF Head(reqs).step = "date" THEN <<Head(reqs).body[1].date>> ELSE <<>>)
         \o PostedDates(Tail(reqs))

DateValues(n) == [i \in 1..n |-> dates[i].value]

\* C14: once the date list is non-empty every date is attempted exactly
\* once and in list order, whatever the outcome of earlier dates: while the
\* loop runs the dates posted are the first idx dates of the list and all
\* but the last have ended, and when scrapeData has left the loop the dates
\* posted and the dates attempted are the whole list.
C14_EveryDateOnce ==
    Len(dates) > 0 =>
        /\ pc = "dates" =>
              /\ idx <= Len(dates)
              /\ PostedDates(requests) = DateValues(idx)
              /\ [i \in 1..Len(attempts) |-> attempts[i].date] = DateValues(idx - 1)
        /\ pc # "dates" =>
              /\ PostedDates(requests) = DateValues(Len(dates))
              /\ [i \in 1..Len(attempts) |-> attempts[i].date] = DateValues(Len(dates))

\* The first of two dates ended in an error and the second gave periods.
C14_Witness ==
    /\ pc = "stats"
    /\ Len(dates) = 2
    /\ attempts[1].outcome = "error"
    /\ attempts[2].outcome = "periods"
    /\ Len(results.schedules) = 1

\* The responses before the i-th request that came with status 200 and
\* contained hidden fields.
TokenResponses(i) ==
    {j \in 1..(i - 1) : responses[j].outcome = "ok" /\ HasKeys(responses[j].fields)}

Latest(S) == CHOOSE j \in S : \A k \in S : k <= j

TokensOf(body) ==
    [viewstate |-> body.viewstate, generator |-> body.generator,
     validation |-> body.validation]

TokensIn(fields) ==
    [viewstate |-> Sent(fields.viewstate), generator |-> Sent(fields.generator),
     validation |-> Sent(fields.validation)]

\* C15: the plant POST carries the hidden fields of the initial GET
\* response, and every date POST carries those of the most recent earlier
\* response that had status 200 and contained hidden fields.
C15_TokensThreaded ==
    \A i \in Posts :
        /\ TokenResponses(i) # {}
        /\ TokensOf(requests[i].body[1]) = TokensIn(responses[Latest(TokenResponses(i))].fields)
        /\ requests[i].step = "plant" => Latest(TokenResponses(i)) = 1

\* C16: the sequence is linear.  The first call is the initial GET, the
\* second the plant POST, issued only after the GET ended with status 200
\* and a __VIEWSTATE; every later call is a date POST, issued only after the
\* plant POST ended with status 200 and a date; each call is issued after
\* the one before it has ended, and at most one call is outstanding.
C16_LinearSequence ==
    /\ inflight \in {0, 1}
    /\ Len(requests) = Len(responses) + inflight
    /\ \A i \in 1..Len(requests) :
          /\ i = 1 => requests[i].step = "initial" /\ requests[i].method = "GET"
          /\ i = 2 =>
                /\ requests[i].step = "plant"
                /\ responses[1].outcome = "ok"
                /\ responses[1].fields.viewstate > 0
          /\ i > 2 =>
                /\ requests[i].step = "date"
                /\ responses[2].outcome = "ok"
                /\ ~NoDateOptions(responses[2].page[1])
                /\ Len(dates) > 0
    /\ \A i \in DatePosts : i > 2
    /\ \A i \in 1..Len(requests) : requests[i].step = "plant" => i = 2

\* The POST of the second date is outstanding, after three calls that ended.
C16_Witness ==
    /\ Len(requests) = 4
    /\ Len(responses) = 3
    /\ inflight = 1
    /\ requests[4].step = "date"
    /\ responses[3].outcome = "error"

\* C17: whenever run returns a document, usace-latest.json and the dated
\* backup hold exactly the returned document, and summary.json has
\* totalSchedules equal to its number of schedules, its statistics, and
\* latestData equal to its first schedule, null only if it has none.
C17_FilesHoldReturned ==
    returned # <<>> =>
        /\ files.latest = returned
        /\ files.backup = returned
        /\ files.summary # <<>>
        /\ files.summary[1].totalSchedules = Len(returned[1].schedules)
        /\ files.summary[1].statistics = returned[1].statistics
        /\ files.summary[1].latestData =
              (IF returned[1].schedules = <<>> THEN <<>> ELSE <<returned[1].schedules[1]>>)

\* C18: the process exits with code 1 exactly when the try block of run
\* threw and the fallback build-and-save in the catch block threw too; in
\* every other case run is at an await that can end, or has returned a
\* document.
C18_ExitCodeOnlyOnHardFailure ==
    /\ exitCode \in {-1, 1}
    /\ exitCode = 1 <=>
          /\ Len(errors) = 2
          /\ errors[1].line = "Scraping failed"
          /\ errors[2].line = "Fallback failed"
    /\ exitCode = 1 <=> pc = "exit"
    /\ exitCode = 1 => returned = <<>>
    /\ Len(errors) <= 2
    /\ pc = "done" => returned = data /\ data # <<>> /\ exitCode = -1 /\ Len(errors) <= 1
    /\ pc \notin {"done", "exit"} =>
          /\ returned = <<>>
          /\ pc \in {"start", "get", "plant", "dates", "stats", "scraped",
                     "write_latest", "write_backup", "write_summary"}
          /\ pc \in {"get", "plant", "dates"} <=> inflight = 1
          /\ pc = "dates" => idx <= Len(dates)
          /\ pc \in {"write_latest", "write_backup", "write_summary"} => data # <<>>

\* The first write of the live document failed and so did the first write
\* of the fallback: the process has exited with code 1.
C18_Witness ==
    /\ pc = "exit"
    /\ exitCode = 1
    /\ errors = <<[line |-> "Scraping failed", at |-> "write_latest"],
                  [line |-> "Fallback failed", at |-> "write_latest"]>>
    /\ Len(results.schedules) > 0

----------------------------------------------------------------------------
\* Properties of fetchPage and extractSelectOptions

Where(req) ==
    [protocol |-> req.protocol, hostname |-> req.hostname, port |-> req.port,
     path |-> req.path]

RECURSIVE LastSlash(_, _)
LastSlash(path, i) == IF i = 0 \/ path[i] = "/" THEN i ELSE LastSlash(path, i - 1)

\* The target of a Location header received from the server of req: the
\* reference resolved against the URL of the request (RFC 3986, 5.2).
Target(req, loc) ==
    LET NoCookie == [method |-> "", body |-> <<>>, cookie |-> ""]
    IN  IF Head(loc) \in Protocols THEN Where(RequestOf(loc, NoCookie))
        ELSE IF Len(loc) >= 2 /\ loc[1] = "/" /\ loc[2] = "/"
             THEN Where(RequestOf(<<req.protocol>> \o loc, NoCookie))
        ELSE IF loc[1] = "/" THEN [Where(req) EXCEPT !.path = loc]
        ELSE [Where(req) EXCEPT !.path = SubSeq(req.path, 1, LastSlash(req.path, Len(req.path))) \o loc]

\* C19: fetchPage follows a 301, 302, 303, 307 or 308 with a Location by a
\* new request to the target of the Location, with method GET and without a
\* body, whatever the original method and body; the caller gets the final
\* response only, and a response with another status, or without Location,
\* is returned as it is.
C19_RedirectFollowedByGet ==
    fetch.state # "none" =>
        /\ wire[1] = RequestOf(fetch.original.url, fetch.original.options)
        /\ Len(wire) = Len(fetch.followed) + 1
        /\ \A i \in 2..Len(wire) :
              /\ fetch.followed[i - 1].status \in RedirectStatuses
              /\ fetch.followed[i - 1].location # <<>>
              /\ wire[i].method = "GET"
              /\ wire[i].body = <<>>
              /\ ~wire[i].contentType
              /\ Where(wire[i]) = Target(wire[i - 1], fetch.followed[i - 1].location)
        /\ fetch.state = "resolved" =>
              /\ Len(fetch.result) = 1
              /\ \/ fetch.result[1].status \notin RedirectStatuses
                 \/ fetch.result[1].location = <<>>
        /\ fetch.state # "resolved" => fetch.result = <<>>

\* The options the claim speaks of: those of the select named Date_Selector
\* with a value, trimmed, that is neither empty nor '0', in document order.
RECURSIVE ExpectedOptions(_)
ExpectedOptions(os) ==
    IF os = <<>> THEN <<>>
    ELSE (IF Trim(Head(os).value) \notin {<<>>, <<"0">>}
          THEN <<[value |-> Trim(Head(os).value), text |-> Trim(Head(os).text)]>>
          ELSE <<>>)
         \o ExpectedOptions(Tail(os))

\* C20: extractSelectOptions(html, 'Date_Selector') returns, in document
\* order, exactly the options inside the select with that name whose value
\* is non-empty and not '0'; options of other selects are never returned,
\* and a page without that select gives the empty sequence.
C20_OptionsOfNamedSelect ==
    parsed =>
        /\ options = (IF html.date THEN ExpectedOptions(html.options) ELSE <<>>)
        /\ \A i \in 1..Len(options) :
              /\ options[i].value \notin {<<"2">>, <<"9">>}
              /\ options[i].value \notin {<<>>, <<"0">>}

\* A page with the three selects; of the two options of Date_Selector the
\* placeholder is left out and the date is returned.
C20_Witness ==
    /\ parsed
    /\ html.plant /\ html.date /\ html.after
    /\ Len(html.options) = 2
    /\ html.options[1].value = <<"0">>
    /\ html.options[2].selected
    /\ options = <<[value |-> <<"2/17/2026">>, text |-> <<"Tue 2/17/2026">>]>>

----------------------------------------------------------------------------
\* Hidden fields

\* Each field name is carried by at most one input element of the page.
NamedOnce(doc) == \A i, j \in 1..Len(doc) : doc[i].name = doc[j].name => i = j

ElementsNamed(doc, field) == {i \in 1..Len(doc) : doc[i].name = field}

\* C21: for a page in which each field name occurs once, extractFormFields
\* maps every target field that is in the page to the value of its own input
\* element, whichever the order of the attributes, and leaves out every
\* target field that is not in the page.
C21_OwnValueInEitherOrder ==
    (parsed /\ NamedOnce(html)) =>
        \A n \in 1..Len(Targets) :
            LET own == ElementsNamed(html, Targets[n])
            IN  extracted[n] = IF own = {} THEN <<>>
                               ELSE <<html[CHOOSE i \in own : TRUE].value>>

----------------------------------------------------------------------------
\* The order of the schedules

KeysOf(scheds) == [i \in 1..Len(scheds) |-> scheds[i].key]

Distinct(seq) == \A i, j \in 1..Len(seq) : seq[i] = seq[j] => i = j

\* C22: in a live result the keys of schedules are pairwise different and
\* the entries are in the order in which they were scraped: an entry that
\* comes earlier was scraped earlier.
C22_KeysInScrapeOrder ==
    \A doc \in LiveDocs :
        /\ Distinct(KeysOf(doc.schedules))
        /\ \A i, j \in 1..Len(doc.schedules) :
              i < j => doc.schedules[i].scrapedAt < doc.schedules[j].scrapedAt

----------------------------------------------------------------------------
\* The parser of the parser test

\* C23: for every page the copy of parseGenerationTable in the parser test
\* returns the periods that the parseGenerationTable of the scraper returns.
C23_TestCopyAgrees ==
    parsed => copyPeriods = periods

----------------------------------------------------------------------------
\* Probing for the submit button

\* C24: the candidates are posted in the order of the list, one POST each and
\* at most 6; a further candidate is posted only after a response without
\* periods, so probing stops at the first response with periods, which is
\* returned as the schedule; a call that returns after no response had
\* periods has posted all 6 candidates and returns success = false, no
\* periods and the hidden fields it was called with.
C24_ProbingInOrder ==
    probe.state # "none" =>
        /\ Len(probe.posts) <= 6
        /\ \A k \in 1..Len(probe.posts) : probe.posts[k].button = ButtonNames[k]
        /\ Len(probe.answers) = IF probe.state = "probing" THEN Len(probe.posts) - 1
                                ELSE Len(probe.posts)
        /\ \A k \in 1..(Len(probe.posts) - 1) :
              probe.answers[k].outcome = "ok" /\ probe.answers[k].periods = <<>>
        /\ probe.state = "returned" =>
              LET last == probe.answers[Len(probe.answers)]
                  result == probe.result[1]
              IN  /\ last.outcome = "ok"
                  /\ IF last.periods # <<>>
                     THEN result.success /\ result.periods = last.periods
                     ELSE /\ Len(probe.posts) = 6
                          /\ ~result.success
                          /\ result.periods = <<>>
                          /\ result.newFormFields = probe.formFields
        /\ probe.state = "threw" =>
              probe.answers[Len(probe.answers)].outcome \in {"error", "status"}

\* All six candidates were posted, none of the responses had a period, and
\* the call returned.
C24_Witness ==
    /\ probe.state = "returned"
    /\ Len(probe.posts) = 6
    /\ ~probe.result[1].success
    /\ probe.formFields = AllFields(1)

----------------------------------------------------------------------------
\* The live document and the outcome of the writes

\* C25: when scrapeData completed with at least one recorded schedule and
\* run returned, the document run returned is the one scrapeData assembled
\* and usace-latest.json holds it.
C25_LiveDocumentReturned ==
    (returned # <<>> /\ ScrapeDataCompleted /\ Len(results.schedules) > 0) =>
        /\ returned = <<results>>
        /\ files.latest = <<Stringify(results)>>

----------------------------------------------------------------------------
\* Keys and labels of the schedules

\* C26: in every document run holds, saves or returns, live or fallback,
\* every entry of schedules is stored under the key that is its dateValue.
C26_KeyIsDateValue ==
    \A doc \in HeldDocs \cup LiveDocs :
        \A i \in 1..Len(doc.schedules) :
            doc.schedules[i].key = doc.schedules[i].dateValue

\* run returned a live document with a schedule whose date text differs
\* from its date value.
C26_Witness ==
    /\ returned # <<>>
    /\ returned[1].source = LiveSource
    /\ \E i \in 1..Len(returned[1].schedules) :
          /\ returned[1].schedules[i].date # returned[1].schedules[i].dateValue
          /\ returned[1].schedules[i].key = <<"2/17/2026">>

\* Every schedule of the document has the given success flag and every
\* period of it the given source.
AllLabelled(doc, success, source) ==
    \A i \in 1..Len(doc.schedules) :
        /\ doc.schedules[i].success = success
        /\ \A k \in 1..Len(doc.schedules[i].periods) :
              doc.schedules[i].periods[k].source = source

\* C27: a document run holds, saves or returns is all live or all fallback:
\* with the live source label every schedule has success = true and every
\* period the source 'USACE Real-time'; otherwise the label is the fallback
\* one, every schedule has success = false and every period the source
\* 'Fallback'.
C27_NoMixture ==
    \A doc \in HeldDocs :
        \/ doc.source = LiveSource /\ AllLabelled(doc, TRUE, "USACE Real-time")
        \/ doc.source = FallbackSource /\ AllLabelled(doc, FALSE, "Fallback")

\* One date gave periods, the next one failed, and run returned the live
\* document with the one schedule.
C27_Witness ==
    /\ returned # <<>>
    /\ Len(attempts) = 2
    /\ attempts[1].outcome = "periods"
    /\ attempts[2].outcome \in {"error", "status"}
    /\ returned[1].source = LiveSource
    /\ Len(returned[1].schedules) = 1

----------------------------------------------------------------------------
\* The session cookie

\* The name=value pairs of a Set-Cookie header.
NameValuePairs(setCookie) == [i \in 1..Len(setCookie) |-> setCookie[i][1]]

\* The cookie the claim prescribes after the first k responses: that of the
\* last response among them with status 200 and a Set-Cookie header, the
\* empty one if there is none.
RECURSIVE CookieAfter(_)
CookieAfter(k) ==
    IF k = 0 THEN <<>>
    ELSE IF responses[k].outcome = "ok" /\ responses[k].setCookie # <<>>
    THEN NameValuePairs(responses[k].setCookie)
    ELSE CookieAfter(k - 1)

\* C28: the stored cookie is the name=value pairs of the last response with
\* status 200 and a Set-Cookie header, so a response without Set-Cookie, a
\* response with another status and a transport error leave it as it was;
\* and every POST carries the cookie stored when it was issued.
C28_CookieFollowsSetCookie ==
    /\ cookie = CookieAfter(Len(responses))
    /\ \A i \in Posts : requests[i].cookie = CookieAfter(i - 1)

\* The plant response replaced the cookie of the initial response, the
\* first date response had status 200 and no Set-Cookie, the second had
\* another status and a Set-Cookie: the cookie is still that of the plant
\* response, and the second date POST carried it.
C28_Witness ==
    /\ Len(responses) = 4
    /\ responses[1].setCookie # <<>>
    /\ responses[2].setCookie # <<>>
    /\ responses[3].outcome = "ok" /\ responses[3].setCookie = <<>>
    /\ responses[4].outcome = "status" /\ responses[4].setCookie # <<>>
    /\ cookie = <<Pair("sid", 2), Pair("lb", 2)>>
    /\ requests[2].cookie = <<Pair("sid", 1), Pair("lb", 1)>>
    /\ requests[4].cookie = cookie

----------------------------------------------------------------------------
\* Termination

\* C29: when every request is answered or fails, every fetchPage call
\* eventually resolves or rejects.
C29_FetchPageSettles ==
    <>(fetch.state \in {"resolved", "rejected"})

----------------------------------------------------------------------------
\* totalDays

\* The dates Date_Selector offers in the plant response: its options without
\* the placeholder.
OfferedDates ==
    LET os == responses[2].page[1].options
    IN  {i \in 1..Len(os) : os[i].value \notin {<<>>, <<"0">>}}

\* A date whose POST failed or whose page had no period.
SomeDateLost ==
    \E i \in 1..Len(attempts) : attempts[i].outcome \in {"error", "status", "empty"}

\* C30: in a live result totalDays is the number of dates Date_Selector
\* offered, from the moment the result is set up and through every date; it
\* is at least the number of schedules, and greater when a date failed or
\* had no period; in the fallback document totalDays is 2.
C30_TotalDaysCountsOffers ==
    /\ \A doc \in LiveDocs :
          /\ doc.statistics.totalDays = Cardinality(OfferedDates)
          /\ doc.statistics.totalDays = Len(dates)
          /\ doc.statistics.totalDays >= Len(doc.schedules)
          /\ SomeDateLost => doc.statistics.totalDays > Len(doc.schedules)
    /\ \A doc \in HeldDocs :
          doc.source = FallbackSource => doc.statistics.totalDays = 2

\* Two dates were offered, the first failed, the second was recorded, and
\* run returned the live document.
C30_Witness ==
    /\ returned = <<results>>
    /\ results.source = LiveSource
    /\ Len(dates) = 2
    /\ attempts[1].outcome = "status"
    /\ attempts[2].outcome = "periods"
    /\ results.statistics.totalDays = 2
    /\ Len(results.schedules) = 1

====
